---------------------------- MODULE Spec2Model ----------------------------
(***************************************************************************)
(* Model of the venue scoring and re-ranking pipeline:                     *)
(*   app/services/scoring_service.py      factor scorers, weights          *)
(*   app/services/scoring_pipeline.py     rank_places                      *)
(*   app/services/review_boost_service.py re_rank_with_reviews             *)
(*                                                                         *)
(* Numbers.  Python floats are modelled in fixed point: a score, a factor  *)
(* and a boost are integers in millionths (Unit = 1.0).  A weight vector   *)
(* is kept exactly, as integer numerators in hundredths over a common      *)
(* denominator `den`, so that normalisation (w[k] /= total) is exact.      *)
(* Candidate popularity is in tenths of a rating point, distances are in   *)
(* metres, prices and budgets in rupees.                                   *)
(*                                                                         *)
(* Strings are TLA+ strings; substring tests, lower() and tokenising are   *)
(* computed character by character.                                        *)
(*                                                                         *)
(* Dynamically typed values (a dish that is a string, a list or something  *)
(* else; a distance that is a number, null or a string) are records        *)
(* [t, n, s, l] tagged by their Python type.                               *)
(***************************************************************************)
EXTENDS Integers, Sequences, FiniteSets, TLC

VARIABLES attrs, heap, places, ranked, final, pc, weights

vars == <<attrs, heap, places, ranked, final, pc, weights>>

-----------------------------------------------------------------------------
(* Python values                                                           *)

Null == [t |-> "null", n |-> 0, s |-> "", l |-> <<>>]
Num(x) == [t |-> "num", n |-> x, s |-> "", l |-> <<>>]
Str(x) == [t |-> "str", n |-> 0, s |-> x, l |-> <<>>]
List(x) == [t |-> "list", n |-> 0, s |-> "", l |-> x]

\* Python truthiness of a value: None, 0, "" and [] are falsy.
Truthy(v) ==
    CASE v.t = "null" -> FALSE
      [] v.t = "num" -> v.n # 0
      [] v.t = "str" -> v.s # ""
      [] v.t = "list" -> v.l # <<>>

\* The absent key of a dict holding a number (p.get("score") is None).
Absent == -1

\* 1.0 in fixed point.
Unit == 1000000

Min(a, b) == IF a <= b THEN a ELSE b
Max(a, b) == IF a >= b THEN a ELSE b

\* max(0.0, min(x, 1.0))
Clamp01(x) == Max(0, Min(x, Unit))

-----------------------------------------------------------------------------
(* Strings                                                                 *)

\* Python `needle in hay` on str: "" is in every string.
Contains(hay, needle) ==
    \/ needle = ""
    \/ \E i \in 1..(Len(hay) - Len(needle) + 1) :
          SubSeq(hay, i, i + Len(needle) - 1) = needle

UpperChars == "ABCDEFGHIJKLMNOPQRSTUVWXYZ"
LowerChars == "abcdefghijklmnopqrstuvwxyz"
DigitChars == "0123456789"

\* The one-character strings of an alphabet.
CharsOf(alphabet) == {SubSeq(alphabet, i, i) : i \in 1..Len(alphabet)}

\* The 1-based index of the one-character string c in alphabet, 0 if none.
IndexIn(alphabet, c) ==
    IF \E i \in 1..Len(alphabet) : SubSeq(alphabet, i, i) = c
    THEN CHOOSE i \in 1..Len(alphabet) : SubSeq(alphabet, i, i) = c
    ELSE 0

UpperSet == CharsOf(UpperChars)
AlnumSet == CharsOf(LowerChars) \cup CharsOf(DigitChars)

\* The lower-case letter of each upper-case letter.
LowerOf == [c \in UpperSet |-> SubSeq(LowerChars, IndexIn(UpperChars, c),
                                       IndexIn(UpperChars, c))]

LowerChar(c) == IF c \in UpperSet THEN LowerOf[c] ELSE c

RECURSIVE LowerFrom(_)
LowerFrom(s) ==
    IF s = "" THEN ""
    ELSE LowerChar(SubSeq(s, 1, 1)) \o LowerFrom(SubSeq(s, 2, Len(s)))

\* str.lower(): a string without an upper-case letter is its own lower().
Lower(s) ==
    IF \A i \in 1..Len(s) : SubSeq(s, i, i) \notin UpperSet THEN s ELSE LowerFrom(s)

\* " ".join(parts) and friends.
RECURSIVE Join(_, _)
Join(sep, parts) ==
    IF parts = <<>> THEN ""
    ELSE IF Len(parts) = 1 THEN parts[1]
    ELSE parts[1] \o sep \o Join(sep, Tail(parts))

IsAlnum(c) == c \in AlnumSet

\* re.split(r"[^a-z0-9]+", text) without the empty pieces: the maximal runs
\* of [a-z0-9], in order.  cur is the run being read.
RECURSIVE SplitAlnum(_, _)
SplitAlnum(text, cur) ==
    IF text = "" THEN (IF cur = "" THEN <<>> ELSE <<cur>>)
    ELSE LET c == SubSeq(text, 1, 1)
             rest == SubSeq(text, 2, Len(text))
         IN  IF IsAlnum(c) THEN SplitAlnum(rest, cur \o c)
             ELSE IF cur = "" THEN SplitAlnum(rest, "")
             ELSE <<cur>> \o SplitAlnum(rest, "")

\* str.strip() = "" : the text holds only blanks.
RECURSIVE IsBlank(_)
IsBlank(s) ==
    \/ s = ""
    \/ SubSeq(s, 1, 1) = " " /\ IsBlank(SubSeq(s, 2, Len(s)))

\* float(text) for the decimal strings "ddd" and "ddd.d", in tenths;
\* -1 when float() raises ValueError.
RECURSIVE ParseDigits(_, _)
ParseDigits(s, acc) ==
    IF s = "" THEN acc
    ELSE LET d == IndexIn(DigitChars, SubSeq(s, 1, 1))
         IN  IF d = 0 THEN -1 ELSE ParseDigits(SubSeq(s, 2, Len(s)), 10 * acc + (d - 1))

ParseTenths(s) ==
    LET n == Len(s)
    IN  IF n = 0 THEN -1
        ELSE IF n >= 3 /\ SubSeq(s, n - 1, n - 1) = "."
        THEN LET whole == ParseDigits(SubSeq(s, 1, n - 2), 0)
                 frac == ParseDigits(SubSeq(s, n, n), 0)
             IN  IF whole < 0 \/ frac < 0 THEN -1 ELSE 10 * whole + frac
        ELSE LET whole == ParseDigits(s, 0)
             IN  IF whole < 0 THEN -1 ELSE 10 * whole

\* float(v) of a field value, in tenths of the field's unit; -1 when float()
\* raises (None is handled by the callers before the try).
\* `scale` is 1 for a field the model keeps in tenths, 10 for one it keeps
\* in whole units.
FloatTenths(v, scale) ==
    CASE v.t = "num" -> v.n * scale
      [] v.t = "str" -> ParseTenths(v.s)
      [] OTHER -> -1

-----------------------------------------------------------------------------
(* Lookup tables (scoring_service.py)                                      *)

\* The base weight vector, in hundredths (den = 100).
WEIGHTS ==
    [cuisine_match |-> 35, style_match |-> 15, popularity |-> 20,
     distance |-> 15, budget |-> 10, den |-> 100]

\* DISH_HINTS.get(d): "" stands for a key the hint does not hold; NoHint for
\* a dish the table does not hold.
NoHint == [cuisine |-> "", category |-> ""]

DISH_HINTS(d) ==
    CASE d \in {"dosa", "idli", "vada", "pongal"} ->
             [cuisine |-> "south indian", category |-> ""]
      [] d = "biryani" -> [cuisine |-> "indian", category |-> ""]
      [] d \in {"naan", "butter naan", "butter chicken"} ->
             [cuisine |-> "north indian", category |-> ""]
      [] d \in {"fried rice", "manchurian", "noodles"} ->
             [cuisine |-> "chinese", category |-> ""]
      [] d \in {"pizza", "pasta"} -> [cuisine |-> "italian", category |-> ""]
      [] d = "burger" -> [cuisine |-> "", category |-> "fast food"]
      [] d \in {"ice cream", "brownie"} -> [cuisine |-> "", category |-> "dessert"]
      [] d \in {"litti", "litti chokha"} -> [cuisine |-> "bihari", category |-> ""]
      [] d = "dal bati" -> [cuisine |-> "rajasthani", category |-> ""]
      [] d = "misal pav" -> [cuisine |-> "maharashtrian", category |-> ""]
      [] OTHER -> NoHint

\* CUISINE_FAMILIES, in the dict's insertion order.
CUISINE_FAMILIES ==
    << [fam |-> "south indian",
        vals |-> <<"south indian", "andhra", "telangana", "tamil", "kerala",
                   "karnataka", "udupi", "chettinad">>],
       [fam |-> "north indian",
        vals |-> <<"north indian", "punjabi", "mughlai", "awadhi", "bihari">>],
       [fam |-> "east indian", vals |-> <<"bengali", "odia", "oriya", "assamese">>],
       [fam |-> "west indian",
        vals |-> <<"rajasthani", "gujarati", "maharashtrian", "goan">>],
       [fam |-> "coastal", vals |-> <<"mangalorean", "konkan", "seafood">>],
       [fam |-> "generic_indian", vals |-> <<"indian">>] >>

\* STATE_FAMILY.get(txt), "" when txt is no key.
STATE_FAMILY(txt) ==
    CASE txt \in {"andhra", "telangana", "tamil nadu", "kerala", "karnataka"} ->
             "south indian"
      [] txt \in {"punjab", "uttar pradesh", "bihar", "delhi", "haryana"} ->
             "north indian"
      [] txt \in {"rajasthan", "gujarat", "maharashtra", "goa"} -> "west indian"
      [] txt \in {"west bengal", "odisha", "orissa", "assam"} -> "east indian"
      [] OTHER -> ""

\* STYLE_HINTS.get(s): the implied cuisines followed by the implied
\* categories (both are tested the same way); <<>> when s is no key.
STYLE_HINTS(s) ==
    CASE s = "soft" -> <<"south indian">>
      [] s = "light" -> <<"south indian", "healthy">>
      [] s = "comfort" -> <<"south indian", "indian">>
      [] s = "crunchy" -> <<"fast food">>
      [] s = "crispy" -> <<"fast food", "chinese">>
      [] s = "cheesy" -> <<"italian", "fast food">>
      [] s = "spicy" -> <<"andhra", "chettinad", "indo-chinese", "north indian">>
      [] s = "sweet" -> <<"dessert", "bakery">>
      [] s = "healthy" -> <<"salad", "healthy food">>
      [] OTHER -> <<>>

-----------------------------------------------------------------------------
(* Dynamic weight adjuster                                                 *)

\* A token table that does not know "rating".
PrefKeyNoRating(p) ==
    CASE p = "budget" -> "budget"
      [] p = "distance" -> "distance"
      [] p = "popularity" -> "popularity"
      [] p = "cuisine" -> "cuisine_match"
      [] p = "style" -> "style_match"
      [] OTHER -> ""

\* The key a ranking token maps to, "" for an unrecognised token.
PrefKey(p) ==
    CASE p = "budget" -> "budget"
      [] p = "distance" -> "distance"
      [] p \in {"popularity", "rating"} -> "popularity"
      [] p = "cuisine" -> "cuisine_match"
      [] p = "style" -> "style_match"
      [] OTHER -> ""

\* A bump that overwrites: each requested key is set to 0.42 however often
\* its token occurs.
RECURSIVE BumpOnce(_, _)
BumpOnce(w, prefs) ==
    IF prefs = <<>> THEN w
    ELSE LET k == PrefKey(Head(prefs))
             w1 == IF k = "" THEN w ELSE [w EXCEPT ![k] = 42]
         IN  BumpOnce(w1, Tail(prefs))

\* for p in prefs: w[key(p)] += 0.4
RECURSIVE BumpAll(_, _)
BumpAll(w, prefs) ==
    IF prefs = <<>> THEN w
    ELSE LET k == PrefKey(Head(prefs))
             w1 == IF k = "" THEN w ELSE [w EXCEPT ![k] = @ + 40]
         IN  BumpAll(w1, Tail(prefs))

\* total = sum(w.values()) or 1.0; w[k] /= total
Normalize(w) ==
    LET total == w.cuisine_match + w.style_match + w.popularity + w.distance + w.budget
    IN  [w EXCEPT !.den = IF total = 0 THEN w.den ELSE total]

\* [str(p).lower() for p in prefs], without the empty strings
RECURSIVE CleanPrefs(_)
CleanPrefs(prefs) ==
    IF prefs = <<>> THEN <<>>
    ELSE LET p == Lower(Head(prefs))
         IN  (IF p = "" THEN <<>> ELSE <<p>>) \o CleanPrefs(Tail(prefs))

adjust_dynamic_weights(a, base) ==
    LET prefs == CleanPrefs(a.ranking_preferences)
        small == [cuisine_match |-> 2, style_match |-> 2, popularity |-> 2,
                  distance |-> 2, budget |-> 2, den |-> 100]
        query_text == Lower(a.raw_query)
    IN  IF prefs # <<>>
        THEN IF Len(prefs) = 1
             THEN LET k == PrefKey(prefs[1])
                  IN  Normalize(IF k = "" THEN small ELSE [small EXCEPT ![k] = 90])
             ELSE Normalize(BumpAll(small, prefs))
        ELSE IF a.distance_preference # ""
                /\ (Contains(a.distance_preference, "near")
                    \/ Contains(a.distance_preference, "nearby"))
        THEN [base EXCEPT !.distance = 60, !.popularity = 15, !.cuisine_match = 10,
                          !.style_match = 5, !.budget = 10]
        ELSE IF \/ Contains(query_text, "popular")
                \/ Contains(query_text, "high rating")
                \/ Contains(query_text, "top rated")
        THEN [base EXCEPT !.popularity = 50, !.distance = 20, !.cuisine_match = 15,
                          !.style_match = 5, !.budget = 10]
        ELSE IF Truthy(a.budget)
        THEN [base EXCEPT !.budget = 50, !.distance = 20, !.cuisine_match = 15,
                          !.style_match = 5, !.popularity = 10]
        ELSE IF a.cuisine # "" \/ a.inferred_cuisine_from_dish # ""
        THEN [base EXCEPT !.cuisine_match = 50, !.distance = 20, !.popularity = 15,
                          !.style_match = 10, !.budget = 5]
        ELSE IF a.food_style # <<>>
        THEN [base EXCEPT !.style_match = 40, !.cuisine_match = 25, !.distance = 15,
                          !.popularity = 10, !.budget = 10]
        ELSE base

\* The dict passed as `base`, after the call, had line 94 bound w to base
\* itself: the presets of the fallback branches are then written into it.
BaseWithoutCopy(a, base) ==
    IF CleanPrefs(a.ranking_preferences) # <<>> THEN base
    ELSE adjust_dynamic_weights(a, base)

\* The dict passed as `base`, after the call: w is a copy of it (line 94) or
\* a new dict (line 106), and every assignment goes to w.
BaseAfter(a, base) == base

\* w[k] * factor, a weight times a factor in millionths.
Weighted(w, k, factor) == (w[k] * factor) \div w.den

-----------------------------------------------------------------------------
(* Factor scorers                                                          *)

normalize_popularity(raw) ==
    IF raw.t = "null" THEN 0
    ELSE LET val == FloatTenths(raw, 1)
         IN  IF raw.t \notin {"num", "str"} \/ (raw.t = "str" /\ val < 0) THEN 0
             ELSE IF val <= 50 THEN Clamp01((val * Unit) \div 50)
             ELSE Clamp01((val * (Unit \div 100)))

\* exp(-d / 4000) in millionths at d = 0, 100, ..., 12000 metres.
ExpTable ==
    << 1000000, 975310, 951229, 927743, 904837, 882497, 860708, 839457,
       818731, 798516, 778801, 759572, 740818, 722527, 704688, 687289,
       670320, 653770, 637628, 621885, 606531, 591555, 576950, 562705,
       548812, 535261, 522046, 509156, 496585, 484325, 472367, 460704,
       449329, 438235, 427415, 416862, 406570, 396531, 386741, 377192,
       367879, 358796, 349938, 341298, 332871, 324652, 316637, 308819,
       301194, 293758, 286505, 279431, 272532, 265803, 259240, 252840,
       246597, 240508, 234570, 228779, 223130, 217621, 212248, 207008,
       201897, 196912, 192050, 187308, 182684, 178173, 173774, 169483,
       165299, 161218, 157237, 153355, 149569, 145876, 142274, 138761,
       135335, 131994, 128735, 125556, 122456, 119433, 116484, 113608,
       110803, 108067, 105399, 102797, 100259, 97783, 95369, 93014,
       90718, 88478, 86294, 84163, 82085, 80058, 78082, 76154,
       74274, 72440, 70651, 68907, 67206, 65546, 63928, 62349,
       60810, 59309, 57844, 56416, 55023, 53665, 52340, 51047,
       49787 >>

\* math.exp(-d / 4000.0) for d > 0 metres: the table, interpolated between
\* its points, and exp(-3) * exp(-(d - 12000) / 4000) beyond it.
RECURSIVE ExpNeg(_)
ExpNeg(d) ==
    LET i == d \div 100
        r == d % 100
    IN  IF d > 12000 THEN (ExpTable[121] * (ExpNeg(d - 12000) \div 1000)) \div 1000
        ELSE IF r = 0 THEN ExpTable[i + 1]
        ELSE ExpTable[i + 1] - ((ExpTable[i + 1] - ExpTable[i + 2]) * r) \div 100

distance_score(dist_m) ==
    IF dist_m.t = "null" THEN Unit \div 2
    ELSE LET d == FloatTenths(dist_m, 10)
         IN  IF dist_m.t \notin {"num", "str"} \/ (dist_m.t = "str" /\ d < 0)
             THEN Unit \div 2
             ELSE IF d <= 0 THEN Unit
             ELSE ExpNeg(d \div 10)

\* A budget score whose steps leave out their upper ends.
BudgetSimilarityStrict(user_budget, place_price) ==
    IF user_budget.t # "num" \/ place_price.t # "num" THEN Unit \div 2
    ELSE IF place_price.n < user_budget.n THEN Unit
    ELSE IF 10 * place_price.n < 13 * user_budget.n THEN 700000
    ELSE IF 10 * place_price.n < 16 * user_budget.n THEN 400000
    ELSE 100000

budget_similarity(user_budget, place_price) ==
    IF user_budget.t = "null" \/ place_price.t = "null" THEN Unit \div 2
    ELSE LET b == FloatTenths(user_budget, 10)
             p == FloatTenths(place_price, 10)
         IN  IF \/ user_budget.t \notin {"num", "str"}
                \/ place_price.t \notin {"num", "str"}
                \/ (user_budget.t = "str" /\ b < 0)
                \/ (place_price.t = "str" /\ p < 0)
             THEN Unit \div 2
             ELSE IF p <= b THEN Unit
             ELSE IF 10 * p <= 13 * b THEN 700000
             ELSE IF 10 * p <= 16 * b THEN 400000
             ELSE 100000

\* for fam, vals in CUISINE_FAMILIES.items(): for v in vals: if v in txt
RECURSIVE FirstFamily(_, _)
FirstFamily(fams, txt) ==
    IF fams = <<>> THEN ""
    ELSE IF \E j \in 1..Len(Head(fams).vals) : Contains(txt, Head(fams).vals[j])
    THEN Head(fams).fam
    ELSE FirstFamily(Tail(fams), txt)

\* Lines 249-262, for txt = label.lower().
FamilyOf(txt, state_family, fam) ==
    IF state_family # "" THEN state_family
    ELSE IF fam # "" THEN fam
    ELSE IF Contains(txt, "indian") THEN "generic_indian"
    ELSE ""

get_family(label) ==
    IF label = "" THEN ""
    ELSE FamilyOf(Lower(label), STATE_FAMILY(Lower(label)),
                  FirstFamily(CUISINE_FAMILIES, Lower(label)))

\* attrs.get("cuisine") or attrs.get("inferred_cuisine_from_dish")
UserCuisine(a) == IF a.cuisine # "" THEN a.cuisine ELSE a.inferred_cuisine_from_dish

\* A relation of families that is weak in both directions for north Indian
\* too.
FamilyRelationSymmetric(user_family, place_family) ==
    IF user_family # "" /\ place_family # ""
    THEN IF user_family = place_family THEN "strong"
         ELSE IF "generic_indian" \in {user_family, place_family}
                 /\ {user_family, place_family} \cap {"south indian", "north indian"} # {}
         THEN "weak"
         ELSE "none"
    ELSE "none"

\* The relation of two cuisine families (lines 288-296).
FamilyRelation(user_family, place_family) ==
    IF user_family # "" /\ place_family # ""
    THEN IF user_family = place_family THEN "strong"
         ELSE IF \/ (user_family = "south indian" /\ place_family = "generic_indian")
                 \/ (user_family = "generic_indian"
                     /\ place_family \in {"south indian", "north indian"})
         THEN "weak"
         ELSE "none"
    ELSE "none"

\* Lines 274-296, for uc and cuisine_text in lower case.
RelationOf(uc, cat, cuisine_text) ==
    IF cuisine_text = "" /\ cat = "" THEN "none"
    ELSE IF Contains(cuisine_text, uc) THEN "strong"
    ELSE FamilyRelation(get_family(uc), get_family(cuisine_text))

\* A classifier that, without a requested cuisine, takes the cuisine the
\* dish hints at.
ClassifyWithDishHint(a, place) ==
    LET uc == IF UserCuisine(a) # "" THEN UserCuisine(a)
              ELSE IF a.dish.t = "str" THEN DISH_HINTS(Lower(a.dish.s)).cuisine
              ELSE ""
    IN  IF uc = "" THEN "none"
        ELSE RelationOf(Lower(uc), Lower(place.category),
                        Lower(IF place.category # "" THEN place.category
                              ELSE place.cuisine))

classify_cuisine_relation(a, place) ==
    IF UserCuisine(a) = "" THEN "none"
    ELSE RelationOf(Lower(UserCuisine(a)), Lower(place.category),
                    Lower(IF place.category # "" THEN place.category ELSE place.cuisine))

\* strong -> 1.0, weak -> 0.6, none -> 0.0
RelationScore(relation) ==
    IF relation = "strong" THEN Unit
    ELSE IF relation = "weak" THEN 600000
    ELSE 0

\* A cuisine score that looks at the explicit cuisine only.
CuisineMatchExplicitOnly(a, place) ==
    IF a.cuisine = "" THEN Unit \div 2
    ELSE RelationScore(classify_cuisine_relation(a, place))

cuisine_match_score(a, place) ==
    IF UserCuisine(a) = "" THEN Unit \div 2
    ELSE RelationScore(classify_cuisine_relation(a, place))

\* The number of the entries of a sequence of booleans that are true.
CountIn(flags) == Cardinality({i \in 1..Len(flags) : flags[i]})

style_score_fn(a, place) ==
    LET desired == a.food_style
        tags == Lower(place.tags)
    IN  IF desired = <<>> \/ tags = "" THEN 0
        ELSE (CountIn([i \in 1..Len(desired) |-> Contains(tags, Lower(desired[i]))])
              * Unit) \div Len(desired)

\* str(v) of a value
StrOf(v) ==
    CASE v.t = "str" -> v.s
      [] v.t = "num" -> ToString(v.n)
      [] v.t = "null" -> "None"
      [] OTHER -> "[...]"

avoid_penalty(a, place) ==
    LET tags == Lower(place.tags)
        cat == Lower(place.category)
    IN  0 - 400000 * CountIn([i \in 1..Len(a.avoid_food_style) |->
                                 Contains(tags, Lower(a.avoid_food_style[i]))])
          - 400000 * CountIn([i \in 1..Len(a.avoid_cuisine) |->
                                 Contains(cat, Lower(StrOf(a.avoid_cuisine[i])))])

\* The dish normalised into a list of lower-case strings (dish_boost).
RECURSIVE LowerAll(_)
LowerAll(seq) ==
    IF seq = <<>> THEN <<>> ELSE <<Lower(Head(seq))>> \o LowerAll(Tail(seq))

\* Whether some requested dish has a hint the candidate's category holds.
DishHintMatches(dishes, place_cat) ==
    \E i \in 1..Len(dishes) :
        LET hint == DISH_HINTS(dishes[i])
        IN  \/ hint.cuisine # "" /\ Contains(place_cat, hint.cuisine)
            \/ hint.category # "" /\ Contains(place_cat, hint.category)

\* dish_boost with the two boost values the wrong way round.
BoostForSwapped(dishes, place_cat, relation) ==
    IF relation = "none" THEN 0
    ELSE IF ~DishHintMatches(dishes, place_cat) THEN 0
    ELSE IF relation = "strong" THEN 150000
    ELSE 250000

\* Lines 391-412: the boost of a dish list against a category, given the
\* cuisine relation.
BoostFor(dishes, place_cat, relation) ==
    IF relation = "none" THEN 0
    ELSE IF ~DishHintMatches(dishes, place_cat) THEN 0
    ELSE IF relation = "strong" THEN 250000
    ELSE 150000

dish_boost(a, place) ==
    IF ~Truthy(a.dish) THEN 0
    ELSE IF a.dish.t \notin {"str", "list"} THEN 0
    ELSE BoostFor(IF a.dish.t = "str" THEN <<Lower(a.dish.s)>> ELSE LowerAll(a.dish.l),
                  Lower(place.category), classify_cuisine_relation(a, place))

\* A boost that is returned as summed, without the clamp.
ClampBoostNone(x) == x

\* max(-0.25, min(boost, 0.25))
ClampBoost(x) == Max(0 - 250000, Min(x, 250000))

RECURSIVE StyleHintHits(_, _, _)
StyleHintHits(desired, cat, tags) ==
    IF desired = <<>> THEN 0
    ELSE LET hints == STYLE_HINTS(Lower(Head(desired)))
         IN  CountIn([i \in 1..Len(hints) |->
                         Contains(cat, hints[i]) \/ Contains(tags, hints[i])])
             + StyleHintHits(Tail(desired), cat, tags)

style_inference_boost(a, place) ==
    IF a.food_style = <<>> THEN 0
    ELSE ClampBoost(80000 * StyleHintHits(a.food_style, Lower(place.category),
                                          Lower(place.tags)))

mood_boost(a, place) ==
    LET mood_text == Lower(a.mood)
        cat == Lower(place.category)
        tags == Lower(place.tags)
        AnyIn(text, words) == \E w \in words : Contains(text, w)
        comfort == AnyIn(mood_text, {"comfort", "rough", "bad day", "sad", "tired"})
        party == AnyIn(mood_text, {"celebration", "party", "birthday"})
        c1 == IF AnyIn(cat, {"vegetarian", "veg"}) THEN 180000
              ELSE IF Contains(cat, "south indian") THEN 150000
              ELSE IF Contains(cat, "indian") THEN 80000
              ELSE 0
        c2 == IF AnyIn(tags, {"light", "home-style", "healthy", "soft"}) THEN 100000 ELSE 0
        c3 == IF AnyIn(cat, {"fast food", "chinese"}) THEN 0 - 80000 ELSE 0
        c4 == IF AnyIn(tags, {"fried", "biryani", "tandoori", "oily"}) THEN 0 - 100000 ELSE 0
        p1 == IF AnyIn(cat, {"mughlai", "north indian"}) \/ Contains(tags, "biryani")
              THEN 120000 ELSE 0
        p2 == IF AnyIn(cat, {"dessert", "bakery"}) \/ Contains(tags, "sweet")
              THEN 80000 ELSE 0
    IN  IF a.mood = "" THEN 0
        ELSE ClampBoost((IF comfort THEN c1 + c2 + c3 + c4 ELSE 0)
                        + (IF party THEN p1 + p2 ELSE 0))

-----------------------------------------------------------------------------
(* Score composer                                                          *)

\* The weighted sum of the five factors (lines 528-534).
WeightedBase(w, a, place) ==
    Weighted(w, "cuisine_match", cuisine_match_score(a, place))
    + Weighted(w, "style_match", style_score_fn(a, place))
    + Weighted(w, "popularity", normalize_popularity(place.popularity))
    + Weighted(w, "distance", distance_score(place.distance_m))
    + Weighted(w, "budget", budget_similarity(a.budget, place.price_level))

\* base + dish_extra + mood_extra + style_inferred_extra + penalty, before
\* the clamp.
RawScore(a, place) ==
    WeightedBase(adjust_dynamic_weights(a, WEIGHTS), a, place)
    + dish_boost(a, place) + mood_boost(a, place)
    + style_inference_boost(a, place) + avoid_penalty(a, place)

\* compute_score without the clamp of line 537.
UnclampedScore(a, place) == RawScore(a, place)

compute_score(a, place) == Clamp01(RawScore(a, place))

-----------------------------------------------------------------------------
(* Explanation builder (scoring_pipeline.py)                               *)

\* The looser test of the endpoint's pre-filter ("veg" in the category,
\* recommendations.py:55) in the place of _is_veg_place.
IsVegLoose(place) ==
    Contains(Lower(place.cuisine) \o " " \o Lower(place.category), "veg")

is_veg_place(place) ==
    Contains(Lower(place.cuisine) \o " " \o Lower(place.category), "vegetarian")

\* The contributions dict rank_places hands to _describe_top_factors, kept
\* exactly: a weighted contribution c is (num, den) with c = num / den.
Contributions(a, place, w) ==
    [cuisine |-> w.cuisine_match * cuisine_match_score(a, place),
     style |-> w.style_match * style_score_fn(a, place),
     popularity |-> w.popularity * normalize_popularity(place.popularity),
     distance |-> w.distance * distance_score(place.distance_m),
     budget |-> w.budget * budget_similarity(a.budget, place.price_level),
     den |-> w.den,
     dish |-> dish_boost(a, place),
     mood |-> mood_boost(a, place),
     penalty |-> avoid_penalty(a, place),
     cuisine_relation |-> classify_cuisine_relation(a, place)]

\* A threshold of 0.01 in the place of 0.05.
AtLeast001(num, den) == num >= 10000 * den

\* c >= 0.05 for a weighted contribution
AtLeast005(num, den) == num >= 50000 * den

\* f"{km:.1f}" for km = dist / 1000, dist in metres (rounded to the nearest
\* tenth).
FormatKm(dist) ==
    LET tenths == (dist + 50) \div 100
    IN  ToString(tenths \div 10) \o "." \o ToString(tenths % 10)

\* _describe_top_factors raises TypeError on `dist / 1000` when distance_m
\* is a string, and on `pop >= 4.5` when popularity is a non-empty string.
DescribeRaises(a, place, c) ==
    \/ place.distance_m.t = "str" /\ AtLeast005(c.distance, c.den)
    \/ place.popularity.t = "str" /\ Truthy(place.popularity)
                                  /\ AtLeast005(c.popularity, c.den)

\* The clauses of the reason, in order (non-ASCII signs of the templates are
\* written in ASCII).
DescribeParts(a, place, c) ==
    LET b == FloatTenths(a.budget, 10)
        p == FloatTenths(place.price_level, 10)
        budget_part ==
            IF ~AtLeast005(c.budget, c.den) THEN <<>>
            ELSE IF a.budget.t = "null" \/ place.price_level.t = "null"
            THEN <<"A good fit for your budget preference.">>
            ELSE IF b < 0 \/ p < 0 THEN <<"A good fit for what you want to spend.">>
            ELSE IF p <= b
            THEN <<"Works well within your budget (around Rs" \o ToString(b \div 10) \o ").">>
            ELSE IF 10 * p <= 13 * b
            THEN <<"Slightly above your budget but still fairly affordable.">>
            ELSE <<"Costs more than you planned, but recommended for other reasons.">>
        dist == place.distance_m.n
        dist_part ==
            IF place.distance_m.t # "num" \/ ~AtLeast005(c.distance, c.den) THEN <<>>
            ELSE IF dist <= 500 THEN <<"Super close - just a short walk away">>
            ELSE IF dist <= 1500 THEN <<"Very close at about " \o FormatKm(dist) \o " km">>
            ELSE IF dist <= 3000 THEN <<"Nearby at around " \o FormatKm(dist) \o " km">>
            ELSE <<"About " \o FormatKm(dist) \o " km away">>
        pop == place.popularity.n
        pop_part ==
            IF place.popularity.t # "num" \/ pop = 0
               \/ ~AtLeast005(c.popularity, c.den) THEN <<>>
            ELSE IF pop >= 45 THEN <<"Extremely popular - highly rated by customers">>
            ELSE IF pop >= 40 THEN <<"Well-loved place with great reviews">>
            ELSE IF pop >= 35 THEN <<"Generally well-rated by visitors">>
            ELSE <<>>
        cuisine == UserCuisine(a)
        cuisine_part ==
            IF cuisine = "" \/ ~AtLeast005(c.cuisine, c.den) THEN <<>>
            ELSE IF c.cuisine_relation = "strong"
            THEN <<"Perfect match for your **" \o cuisine \o "** preference">>
            ELSE IF c.cuisine_relation = "weak"
            THEN <<"Close match to your preferred **" \o cuisine \o "** cuisine family">>
            ELSE <<>>
        style_part ==
            IF a.food_style = <<>> \/ ~AtLeast005(c.style, c.den) THEN <<>>
            ELSE <<"Matches your request for something **"
                   \o Join(", ", a.food_style) \o "**">>
        dish_part ==
            IF Truthy(a.dish) /\ c.dish > 0
            THEN <<"Good choice if you're craving **"
                   \o (IF a.dish.t = "list" THEN "[" \o Join(", ", a.dish.l) \o "]"
                       ELSE StrOf(a.dish)) \o "**">>
            ELSE <<>>
        mood_part ==
            IF a.mood # "" /\ c.mood > 0
            THEN <<"Fits your mood for **" \o a.mood \o "** food">>
            ELSE <<>>
    IN  budget_part \o dist_part \o pop_part \o cuisine_part \o style_part
            \o dish_part \o mood_part

\* ". ".join(parts), after the generic sentence is put in for no part.
JoinParts(parts) ==
    IF parts = <<>> THEN "Good overall match based on your preferences"
    ELSE Join(". ", parts)

describe_top_factors(a, place, c) == JoinParts(DescribeParts(a, place, c))

-----------------------------------------------------------------------------
(* rank_places (scoring_pipeline.py)                                       *)
(* A candidate list is a sequence of addresses of dict objects in `heap`.  *)

\* The entries of seq whose flag is set, in order.
RECURSIVE SelectFlagged(_, _)
SelectFlagged(seq, flags) ==
    IF seq = <<>> THEN <<>>
    ELSE (IF Head(flags) THEN <<Head(seq)>> ELSE <<>>)
         \o SelectFlagged(Tail(seq), Tail(flags))

\* A distance filter that drops a candidate of unknown distance too.
TooFarOrUnknown(a, place) ==
    /\ a.max_distance_m.t = "num"
    /\ \/ place.distance_m.t = "null"
       \/ place.distance_m.t = "num" /\ place.distance_m.n > a.max_distance_m.n

\* `dist > max_dist` raises TypeError when one side is a str and the other a
\* number.
TooFar(a, place) ==
    /\ a.max_distance_m.t = "num"
    /\ place.distance_m.t = "num"
    /\ place.distance_m.n > a.max_distance_m.n

\* Lines 131-140: the veg-only and the distance filter.
PassesHardFilter(a, place) ==
    /\ a.veg_only => is_veg_place(place)
    /\ ~TooFar(a, place)

HardFilterRaises(a, h, list) ==
    \E i \in 1..Len(list) :
        /\ a.veg_only => is_veg_place(h[list[i]])
        /\ a.max_distance_m.t = "num"
        /\ h[list[i]].distance_m.t = "str"

\* any(ac.lower() in category for ac in avoid_cuisines): any() stops at the
\* first hit, and ac.lower() raises AttributeError on an entry that is no str.
RECURSIVE AvoidScan(_, _)
AvoidScan(avoid, category) ==
    IF avoid = <<>> THEN "miss"
    ELSE IF Head(avoid).t # "str" THEN "raise"
    ELSE IF Contains(category, Lower(Head(avoid).s)) THEN "hit"
    ELSE AvoidScan(Tail(avoid), category)

\* An avoid-cuisine skip that compares the entry as written, without lowering
\* it.
AvoidedExact(a, place) ==
    \E i \in 1..Len(a.avoid_cuisine) :
        /\ a.avoid_cuisine[i].t = "str"
        /\ Contains(Lower(place.category), a.avoid_cuisine[i].s)

Avoided(a, place) == AvoidScan(a.avoid_cuisine, Lower(place.category)) = "hit"

GroupingRaises(a, h, list) ==
    \E i \in 1..Len(list) :
        AvoidScan(a.avoid_cuisine, Lower(h[list[i]].category)) = "raise"

user_has_specific_preference(a) ==
    a.cuisine # "" \/ a.inferred_cuisine_from_dish # "" \/ Truthy(a.dish)

\* The bucket a surviving candidate is appended to.
Bucket(a, place) ==
    IF user_has_specific_preference(a)
    THEN LET rel == classify_cuisine_relation(a, place)
         IN  IF rel \in {"strong", "weak"} THEN rel ELSE "neutral"
    ELSE "neutral"

\* A choice that keeps the three buckets together.
ChooseEveryBucket(a, strong_matches, weak_matches, neutral) ==
    strong_matches \o weak_matches \o neutral

\* Lines 164-172: the choice among the three buckets.
ChooseBucket(a, strong_matches, weak_matches, neutral) ==
    IF user_has_specific_preference(a)
    THEN IF strong_matches # <<>> THEN strong_matches
         ELSE IF weak_matches # <<>> THEN weak_matches
         ELSE neutral
    ELSE neutral

\* The bucket of each entry of a list.
BucketsOf(a, h, list) == [i \in 1..Len(list) |-> Bucket(a, h[list[i]])]

InBucket(kept, buckets, b) ==
    SelectFlagged(kept, [i \in 1..Len(kept) |-> buckets[i] = b])

GroupAndChoose(a, kept, buckets) ==
    ChooseBucket(a, InBucket(kept, buckets, "strong"), InBucket(kept, buckets, "weak"),
                 InBucket(kept, buckets, "neutral"))

GroupKept(a, h, kept) == GroupAndChoose(a, kept, BucketsOf(a, h, kept))

\* Lines 145-172: grouping and the choice of the candidate set.
SelectCandidates(a, h, list) ==
    GroupKept(a, h, SelectFlagged(list, [i \in 1..Len(list) |-> ~Avoided(a, h[list[i]])]))

\* The cuisine fallback without the `and candidates` of line 183.
FallbackTypeUnguarded(a, h, candidates) ==
    IF UserCuisine(a) # ""
       /\ ~\E i \in 1..Len(candidates) :
              \/ Contains(Lower(h[candidates[i]].category), Lower(UserCuisine(a)))
              \/ Contains(Lower(h[candidates[i]].cuisine), Lower(UserCuisine(a)))
    THEN "cuisine_family_fallback"
    ELSE "None"

\* Lines 183-191.
FallbackType(a, h, candidates) ==
    LET token == Lower(UserCuisine(a))
    IN  IF UserCuisine(a) # "" /\ candidates # <<>>
           /\ ~\E i \in 1..Len(candidates) :
                  \/ Contains(Lower(h[candidates[i]].category), token)
                  \/ Contains(Lower(h[candidates[i]].cuisine), token)
        THEN "cuisine_family_fallback"
        ELSE "None"

\* Lines 194-211; requested_dish.lower() raises AttributeError on a dish
\* that is neither a list nor a str.
DishFallbackRaises(a, candidates) ==
    Truthy(a.dish) /\ candidates # <<>> /\ a.dish.t \notin {"list", "str"}

\* The dish fallback without the `and candidates` of line 194.
DishFallbackUnguarded(a, h, candidates) ==
    /\ Truthy(a.dish)
    /\ ~\E i \in 1..Len(candidates) :
           \E j \in 1..Len(IF a.dish.t = "list" THEN a.dish.l ELSE <<a.dish.s>>) :
               Contains(Lower(Join(" ", <<h[candidates[i]].name, h[candidates[i]].category,
                                         h[candidates[i]].tags>>)),
                        Lower((IF a.dish.t = "list" THEN a.dish.l ELSE <<a.dish.s>>)[j]))

DishFallback(a, h, candidates) ==
    LET dish_tokens == IF a.dish.t = "list" THEN LowerAll(a.dish.l)
                       ELSE <<Lower(a.dish.s)>>
        Text(x) == Lower(Join(" ", <<h[x].name, h[x].category, h[x].tags>>))
    IN  /\ Truthy(a.dish)
        /\ candidates # <<>>
        /\ ~\E i \in 1..Len(candidates) :
               \E j \in 1..Len(dish_tokens) :
                   Contains(Text(candidates[i]), dish_tokens[j])

\* Lines 243-246: score and reason written onto the dict at address x.
Annotate(a, h, x, c) ==
    [h EXCEPT ![x].score = compute_score(a, h[x]),
              ![x].reason = describe_top_factors(a, h[x], c)]

\* Lines 221-247: the scoring loop writes score and reason onto each dict in
\* turn, and stops at the first candidate whose explanation raises.
RECURSIVE ScoreLoop(_, _, _, _)
ScoreStep(a, w, h, candidates, c) ==
    IF DescribeRaises(a, h[Head(candidates)], c) THEN [heap |-> h, raised |-> TRUE]
    ELSE ScoreLoop(a, w, Annotate(a, h, Head(candidates), c), Tail(candidates))

ScoreLoop(a, w, h, candidates) ==
    IF candidates = <<>> THEN [heap |-> h, raised |-> FALSE]
    ELSE ScoreStep(a, w, h, candidates, Contributions(a, h[Head(candidates)], w))

\* A descending sort that is not stable: an entry goes before the entries
\* whose key equals its own.
RECURSIVE InsertDescUnstable(_, _)
InsertDescUnstable(sorted, e) ==
    IF sorted = <<>> THEN <<e>>
    ELSE IF Head(sorted).key > e.key
    THEN <<Head(sorted)>> \o InsertDescUnstable(Tail(sorted), e)
    ELSE <<e>> \o sorted

\* list.sort(key=..., reverse=True): descending and stable.  An entry goes
\* after every entry whose key is at least its own.
RECURSIVE InsertDesc(_, _)
InsertDesc(sorted, e) ==
    IF sorted = <<>> THEN <<e>>
    ELSE IF Head(sorted).key >= e.key
    THEN <<Head(sorted)>> \o InsertDesc(Tail(sorted), e)
    ELSE <<e>> \o sorted

RECURSIVE SortDescFrom(_, _)
SortDescFrom(sorted, rest) ==
    IF rest = <<>> THEN sorted
    ELSE SortDescFrom(InsertDesc(sorted, Head(rest)), Tail(rest))

\* The list sorted by keys, keys[i] being the key of list[i].
SortDesc(list, keys) ==
    LET sorted == SortDescFrom(<<>>, [i \in 1..Len(list) |->
                                         [x |-> list[i], key |-> keys[i]]])
    IN  [i \in 1..Len(list) |-> sorted[i].x]

\* Lines 213-250, given the candidate set: the diagnostic fields, the
\* scoring loop and the sort.
Finish(a1, candidates, scored) ==
    IF scored.raised
    THEN [attrs |-> a1, heap |-> scored.heap, ranked |-> <<>>, raised |-> TRUE]
    ELSE [attrs |-> a1, heap |-> scored.heap,
          ranked |-> SortDesc(candidates, [i \in 1..Len(candidates) |->
                                              scored.heap[candidates[i]].score]),
          raised |-> FALSE]

ScoreWith(a1, h, candidates) ==
    Finish(a1, candidates,
           ScoreLoop(a1, adjust_dynamic_weights(a1, WEIGHTS), h, candidates))

\* A ranking that writes the two flags only for a selected set that is not
\* empty, and leaves them as they were otherwise.
RankSelectedKeeping(a, h, candidates) ==
    IF DishFallbackRaises(a, candidates)
    THEN [attrs |-> a, heap |-> h, ranked |-> <<>>, raised |-> TRUE]
    ELSE IF candidates = <<>> THEN ScoreWith(a, h, candidates)
    ELSE ScoreWith([a EXCEPT !.fallback_type = FallbackType(a, h, candidates),
                             !.dish_fallback =
                                 IF DishFallback(a, h, candidates) THEN "True"
                                 ELSE "False"],
                   h, candidates)

RankSelected(a, h, candidates) ==
    IF DishFallbackRaises(a, candidates)
    THEN [attrs |-> a, heap |-> h, ranked |-> <<>>, raised |-> TRUE]
    ELSE ScoreWith([a EXCEPT !.fallback_type = FallbackType(a, h, candidates),
                             !.dish_fallback =
                                 IF DishFallback(a, h, candidates) THEN "True"
                                 ELSE "False"],
                   h, candidates)

RankFiltered(a, h, filtered) ==
    IF GroupingRaises(a, h, filtered)
    THEN [attrs |-> a, heap |-> h, ranked |-> <<>>, raised |-> TRUE]
    ELSE RankSelected(a, h, SelectCandidates(a, h, filtered))

\* rank_places(attrs, places): the attrs and the heap it leaves, the list it
\* returns, and whether it raised instead of returning.
rank_places(a, h, list) ==
    IF HardFilterRaises(a, h, list)
    THEN [attrs |-> a, heap |-> h, ranked |-> <<>>, raised |-> TRUE]
    ELSE RankFiltered(a, h, SelectFlagged(list, [i \in 1..Len(list) |->
                                                  PassesHardFilter(a, h[list[i]])]))

-----------------------------------------------------------------------------
(* re_rank_with_reviews (review_boost_service.py)                          *)

\* The default of the parameter top_k_for_reviews.
TOP_K == 15

\* The default of the parameter max_len of _short_review_summary.
MAX_LEN == 140

RECURSIVE NonEmpty(_)
NonEmpty(seq) ==
    IF seq = <<>> THEN <<>>
    ELSE (IF Head(seq) = "" THEN <<>> ELSE <<Head(seq)>>) \o NonEmpty(Tail(seq))

\* _flatten_reviews: " ".join(str(r) for r in reviews if r) of reviews_list.
flatten_reviews(place) == Join(" ", NonEmpty(place.reviews_list))

STOPWORDS ==
    {"i", "me", "my", "we", "you", "he", "she", "they",
     "want", "need", "some", "something", "food", "place", "restaurant",
     "near", "nearby", "around", "very", "really", "just",
     "give", "get", "for", "to", "a", "an", "the", "in", "at", "of",
     "on", "with", "and", "or", "but", "too", "also", "like"}

\* _tokenize, as the set of its tokens (every caller makes a set of them).
tokenize(text) ==
    LET tokens == SplitAlnum(Lower(text), "")
    IN  {tokens[i] : i \in 1..Len(tokens)} \ STOPWORDS

build_query_terms(user_query, a) ==
    LET dish_terms ==
            IF a.dish.t = "str" THEN tokenize(a.dish.s)
            ELSE IF a.dish.t = "list"
            THEN UNION {tokenize(a.dish.l[i]) : i \in 1..Len(a.dish.l)}
            ELSE {}
    IN  tokenize(user_query)
        \cup tokenize(a.cuisine) \cup tokenize(a.inferred_cuisine_from_dish)
        \cup tokenize(a.mood) \cup tokenize(a.category_hint)
        \cup dish_terms
        \cup UNION {tokenize(a.food_style[i]) : i \in 1..Len(a.food_style)}

\* An overlap taken over the review tokens in the place of the query terms.
OverlapOverReview(query_terms, review_tokens) ==
    IF query_terms = {} THEN Unit \div 2
    ELSE IF review_tokens = {} THEN Unit \div 2
    ELSE 300000 + (700000 * Cardinality(query_terms \cap review_tokens))
                      \div Cardinality(review_tokens)

\* Lines 86-90: the overlap mapped into [0.3, 1.0]; 0.5 without terms.
OverlapScore(query_terms, review_tokens) ==
    IF query_terms = {} THEN Unit \div 2
    ELSE IF review_tokens = {} THEN Unit \div 2
    ELSE 300000 + (700000 * Cardinality(query_terms \cap review_tokens))
                      \div Cardinality(query_terms)

review_match_score(user_query, a, reviews_text) ==
    IF reviews_text = "" THEN Unit \div 2
    ELSE OverlapScore(build_query_terms(user_query, a), tokenize(reviews_text))

\* str.strip(), of blanks
RECURSIVE LStrip(_)
LStrip(s) ==
    IF s # "" /\ SubSeq(s, 1, 1) = " " THEN LStrip(SubSeq(s, 2, Len(s))) ELSE s

RECURSIVE RStrip(_)
RStrip(s) ==
    IF s # "" /\ SubSeq(s, Len(s), Len(s)) = " "
    THEN RStrip(SubSeq(s, 1, Len(s) - 1)) ELSE s

Strip(s) == RStrip(LStrip(s))

\* str.find(sep) as a 0-based index, -1 when sep does not occur.
Find(text, sep) ==
    LET hits == {i \in 1..(Len(text) - Len(sep) + 1) :
                    SubSeq(text, i, i + Len(sep) - 1) = sep}
    IN  IF hits = {} THEN -1
        ELSE (CHOOSE i \in hits : \A j \in hits : i <= j) - 1

\* for sep in [". ", "!", "? "]: the first separator found inside the text.
RECURSIVE FirstCut(_, _)
FirstCut(text, seps) ==
    IF seps = <<>> THEN -1
    ELSE LET idx == Find(text, Head(seps))
         IN  IF 0 < idx /\ idx < MAX_LEN THEN idx ELSE FirstCut(text, Tail(seps))

\* Lines 99-111, for text = reviews_text.strip().
SummaryOf(text, idx) ==
    IF text = "" THEN ""
    ELSE IF idx >= 0 THEN Strip(SubSeq(text, 1, idx + 1))
    ELSE IF Len(text) > MAX_LEN THEN RStrip(SubSeq(text, 1, MAX_LEN)) \o "..."
    ELSE text

short_review_summary(reviews_text) ==
    SummaryOf(Strip(reviews_text), FirstCut(Strip(reviews_text), <<". ", "!", "? ">>))

\* Lines 154-164: the entry of one candidate, none without review text.
ReviewEntry(user_query, a, place, reviews_text) ==
    IF IsBlank(reviews_text) THEN <<>>
    ELSE << [pid |-> place.place_id,
             review_match_score |-> review_match_score(user_query, a, reviews_text),
             review_summary |-> short_review_summary(reviews_text)] >>

\* Lines 149-164: review_scores, as the sequence of its assignments (a later
\* assignment to the same pid replaces an earlier one).
RECURSIVE ReviewScores(_, _, _, _)
ReviewScores(user_query, a, h, candidates) ==
    IF candidates = <<>> THEN <<>>
    ELSE ReviewEntry(user_query, a, h[Head(candidates)],
                     flatten_reviews(h[Head(candidates)]))
         \o ReviewScores(user_query, a, h, Tail(candidates))

HasPid(review_scores, pid) ==
    \E i \in 1..Len(review_scores) : review_scores[i].pid = pid

\* review_scores[pid]
Lookup(review_scores, pid) ==
    LET last == CHOOSE i \in 1..Len(review_scores) :
                    /\ review_scores[i].pid = pid
                    /\ \A j \in (i + 1)..Len(review_scores) : review_scores[j].pid # pid
    IN  review_scores[last]

\* A base score that takes an earlier blend where there is one.
BaseScoreBlended(place) ==
    IF place.score_with_reviews # Absent THEN place.score_with_reviews
    ELSE IF place.score = Absent THEN 0 ELSE place.score

\* float(p.get("score") or 0.0)
BaseScore(place) == IF place.score = Absent THEN 0 ELSE place.score

\* A blend that weighs the score and the review match evenly.
BlendEven(base_score, r) == (base_score + r) \div 2

\* (1.0 - blend_weight) * base_score + blend_weight * r, blend_weight = 0.25
Blend(base_score, r) == (3 * base_score + r) \div 4

\* Lines 176-188: the blend and the snippet of a candidate with an entry e.
Boosted(place, e) ==
    [place EXCEPT !.reason =
                      IF e.review_summary = "" THEN place.reason
                      ELSE IF place.reason # ""
                      THEN place.reason \o ". Reviews highlight: " \o e.review_summary
                      ELSE "Reviews highlight: " \o e.review_summary,
                  !.score_with_reviews = Blend(BaseScore(place), e.review_match_score)]

\* Lines 171-193: one pass of the loop over ranked_places.
ReScoreOne(place, review_scores) ==
    IF HasPid(review_scores, place.place_id)
    THEN Boosted(place, Lookup(review_scores, place.place_id))
    ELSE [place EXCEPT !.score_with_reviews = BaseScore(place)]

RECURSIVE ReScoreLoop(_, _, _)
ReScoreLoop(h, list, review_scores) ==
    IF list = <<>> THEN h
    ELSE ReScoreLoop([h EXCEPT ![Head(list)] = ReScoreOne(h[Head(list)], review_scores)],
                     Tail(list), review_scores)

\* x.get("score_with_reviews", x.get("score", 0.0)): the sort key of the
\* second pass, and the score the endpoint reports.
EffectiveScore(place) ==
    IF place.score_with_reviews # Absent THEN place.score_with_reviews
    ELSE IF place.score # Absent THEN place.score
    ELSE 0

\* A review window that is one candidate too long.
PrefixOneMore(list, k) == SubSeq(list, 1, Min(k + 1, Len(list)))

Prefix(list, k) == SubSeq(list, 1, Min(k, Len(list)))

\* A second pass that returns the review window only.
ResortedWindowOnly(h1, ranked_places) ==
    [heap |-> h1,
     ranked |-> SortDesc(Prefix(ranked_places, TOP_K),
                         [i \in 1..Min(TOP_K, Len(ranked_places)) |->
                             EffectiveScore(h1[ranked_places[i]])])]

\* Lines 196-200: the sort of the re-scored list.
Resorted(h1, ranked_places) ==
    [heap |-> h1,
     ranked |-> SortDesc(ranked_places, [i \in 1..Len(ranked_places) |->
                                            EffectiveScore(h1[ranked_places[i]])])]

\* Lines 166-200, given review_scores.
ReRankWith(h, ranked_places, review_scores) ==
    IF review_scores = <<>> THEN [heap |-> h, ranked |-> ranked_places]
    ELSE Resorted(ReScoreLoop(h, ranked_places, review_scores), ranked_places)

\* re_rank_with_reviews without its two early returns for lists that carry
\* no review text (lines 144-146 and 166-167).
ReRankNoFastExit(user_query, a, h, ranked_places) ==
    IF ranked_places = <<>> THEN [heap |-> h, ranked |-> ranked_places]
    ELSE Resorted(ReScoreLoop(h, ranked_places,
                              ReviewScores(user_query, a, h, Prefix(ranked_places, TOP_K))),
                  ranked_places)

\* re_rank_with_reviews(user_query, attrs, ranked_places): the heap it
\* leaves and the list it returns.
re_rank_with_reviews(user_query, a, h, ranked_places) ==
    IF \/ ranked_places = <<>>
       \/ ~\E i \in 1..Len(ranked_places) :
               ~IsBlank(flatten_reviews(h[ranked_places[i]]))
    THEN [heap |-> h, ranked |-> ranked_places]
    ELSE ReRankWith(h, ranked_places,
                    ReviewScores(user_query, a, h, Prefix(ranked_places, TOP_K)))

-----------------------------------------------------------------------------
(* Inputs: preference objects and candidate records                        *)

\* The longest candidate list of the general inputs.
MaxPlaces == 2

\* The longest list of the inputs that reach past the review window.
MaxLong == 17

\* Requests in flight.
Reqs == {1, 2}

\* A preferences object with no signal, before rank_places has attached the
\* two diagnostic fields.
BasePrefs ==
    [cuisine |-> "", inferred_cuisine_from_dish |-> "", dish |-> Null,
     food_style |-> <<>>, avoid_food_style |-> <<>>, avoid_cuisine |-> <<>>,
     budget |-> Null, mood |-> "", veg_only |-> FALSE, max_distance_m |-> Null,
     ranking_preferences |-> <<>>, raw_query |-> "", distance_preference |-> "",
     category_hint |-> "", fallback_type |-> "absent", dish_fallback |-> "absent"]

\* What the query names: cuisine, dish and the cuisine inferred from it.
FoodOpts ==
    { [cuisine |-> "", dish |-> Null, inferred |-> ""],
      [cuisine |-> "kerala", dish |-> Null, inferred |-> ""],
      [cuisine |-> "South Indian", dish |-> Str("Dosa"), inferred |-> ""],
      [cuisine |-> "", dish |-> Str("dosa"), inferred |-> "south indian"],
      [cuisine |-> "", dish |-> Str("dosa"), inferred |-> ""],
      [cuisine |-> "", dish |-> List(<<"Burger", "ice cream">>), inferred |-> "fast food"],
      [cuisine |-> "kerala", dish |-> Str("biryani"), inferred |-> ""],
      [cuisine |-> "", dish |-> Num(5), inferred |-> ""] }

RankingOpts == { <<"budget">>, <<"Distance", "rating">> }

\* The other signals, as the bundles a query carries.
ExtraOpts ==
    { [BasePrefs EXCEPT !.raw_query = "something to eat"],
      [BasePrefs EXCEPT !.raw_query = "pure vegetarian food", !.veg_only = TRUE,
                        !.max_distance_m = Num(2000)],
      [BasePrefs EXCEPT !.raw_query = "soft spicy comfort food under 200",
                        !.budget = Num(200), !.food_style = <<"soft", "spicy">>,
                        !.mood = "comfort food"],
      [BasePrefs EXCEPT !.raw_query = "popular places, no biryani, nothing spicy",
                        !.avoid_cuisine = <<Str("Biryani")>>,
                        !.avoid_food_style = <<"spicy">>],
      [BasePrefs EXCEPT !.raw_query = "birthday party nearby",
                        !.mood = "birthday party", !.distance_preference = "nearby",
                        !.avoid_cuisine = <<Str("dessert"), Num(5)>>] }

\* Every bundle with every food request, and every bundle with every list of
\* ranking preferences.
PrefsSet ==
    { [e EXCEPT !.cuisine = f.cuisine, !.dish = f.dish,
                !.inferred_cuisine_from_dish = f.inferred] :
        e \in ExtraOpts, f \in FoodOpts }
    \cup { [e EXCEPT !.ranking_preferences = rp] : e \in ExtraOpts, rp \in RankingOpts }

\* A canonical candidate dict, as normalize_foursquare_item builds it, before
\* any annotation.
MkPlace(name, category, cuisine, tags, popularity, distance_m, price_level, reviews) ==
    [place_id |-> "", name |-> name, category |-> category, cuisine |-> cuisine,
     tags |-> tags, popularity |-> popularity, distance_m |-> distance_m,
     price_level |-> price_level, reviews_list |-> reviews,
     score |-> Absent, reason |-> "", score_with_reviews |-> Absent]

CandSet ==
    { MkPlace("Paradise Biryani", "Non-Veg Biryani", "Biryani, Mughlai",
              "biryani mughlai spicy heavy", Num(46), Num(300), Num(400),
              <<"Best biryani in town. Loved it!">>),
      MkPlace("Saravana Bhavan", "Vegetarian South Indian", "South Indian",
              "south indian soft light comfort", Num(42), Num(1200), Num(150), <<>>),
      MkPlace("Dosa Corner", "south indian", "South Indian",
              "south indian soft", Num(38), Num(2500), Num(200),
              <<"Crispy dosa and soft idli", "">>),
      MkPlace("Indian Kitchen", "indian", "Indian",
              "indian spicy comfort", Num(75), Null, Null, <<"  ">>),
      MkPlace("Burger Hub", "Fast Food", "Burger, Chinese",
              "fast food crunchy fried", Str("4.5"), Str("n/a"), Str("n/a"),
              <<"Great burger! Cheesy and crunchy">>),
      MkPlace("Sweet Tooth", "dessert", "",
              "sweet dessert bakery", Num(0), Num(5000), Num(260), <<>>) }

\* place_id as the dataset conversion assigns it: f"rest_{row_idx}".
PlaceId(i) == "rest_" \o ToString(i)

\* The candidate lists of at most n records of CandSet, as heaps: the dict
\* at address i is the i-th candidate of the list.
HeapsOver(n) ==
    UNION { { [i \in 1..k |-> [f[i] EXCEPT !.place_id = PlaceId(i)]] :
                f \in [1..k -> CandSet] } : k \in 0..n }

\* The review texts of the long lists.
LongReviews == { <<>>, <<"Spicy biryani, great comfort food.">> }

\* A list of n like candidates whose distance grows by `spread` metres from
\* one to the next; rv gives the reviews of the addresses in its domain.
LongHeap(n, spread, rv) ==
    [i \in 1..n |->
        [MkPlace("Dosa Corner", "south indian", "South Indian", "south indian soft",
                 Num(38), Num(300 + spread * i), Num(200),
                 IF i \in DOMAIN rv THEN rv[i] ELSE <<>>)
            EXCEPT !.place_id = PlaceId(i)]]

\* The addresses of a long list that may carry reviews: the first, the two
\* around the edge of the review window, and the last.
LongSlots(n) == {1, TOP_K, TOP_K + 1, n}

LongPrefs ==
    { [BasePrefs EXCEPT !.raw_query = "spicy biryani"],
      [BasePrefs EXCEPT !.raw_query = "comfort food", !.cuisine = "south indian",
                        !.ranking_preferences = <<"distance">>] }

\* The preferences object of a request slot that is not in use.
IdlePrefs == BasePrefs

-----------------------------------------------------------------------------
(* The state machine                                                       *)
(*   attrs[r]   the preferences object of request r                        *)
(*   heap       the candidate dicts, by address                            *)
(*   places[r]  the list request r passes to rank_places                   *)
(*   ranked[r]  the list rank_places returned to r                         *)
(*   final[r]   the list re_rank_with_reviews returned to r                *)
(*   pc[r]      "idle", "start", "ranked", "done", or "raised" when        *)
(*              rank_places raised an exception                            *)
(*   weights    the module-level dict WEIGHTS of scoring_service.py, which *)
(*              rank_places and compute_score pass to                      *)
(*              adjust_dynamic_weights as `base`                           *)

AllOf(h) == [i \in DOMAIN h |-> i]

Single(v, idle) == [r \in Reqs |-> IF r = 1 THEN v ELSE idle]

\* One request with a fresh candidate list of its own.
InitShort ==
    /\ \E a \in PrefsSet : attrs = Single(a, IdlePrefs)
    /\ heap \in HeapsOver(MaxPlaces)
    /\ places = Single(AllOf(heap), <<>>)
    /\ pc = Single("start", "idle")

\* Two requests with different preferences over the same source rows: the
\* endpoint builds the dicts of each request anew (recommendations.py:141-148),
\* so request 1 holds addresses 1..k and request 2 the copies at k+1..2k.
PairPrefs ==
    { << [BasePrefs EXCEPT !.raw_query = "pure vegetarian food", !.veg_only = TRUE],
         [BasePrefs EXCEPT !.raw_query = "kerala food", !.cuisine = "kerala"] >>,
      << [BasePrefs EXCEPT !.raw_query = "best burger", !.dish = Str("burger"),
                           !.inferred_cuisine_from_dish = "fast food"],
         [BasePrefs EXCEPT !.raw_query = "cheap eats", !.budget = Num(150),
                           !.ranking_preferences = <<"budget">>] >>,
      << [BasePrefs EXCEPT !.raw_query = "vegetarian", !.veg_only = TRUE],
         [BasePrefs EXCEPT !.raw_query = "crispy dosa and soft idli"] >> }

Copies(rows) ==
    [i \in 1..(2 * Len(rows)) |-> rows[((i - 1) % Len(rows)) + 1]]

\* An endpoint that hands every request the same dicts (the rows of a
\* dataset kept in memory) instead of dicts of its own.
PlacesShared(r, rows) == [i \in 1..Len(rows) |-> i]

\* The list request r passes on: the dicts built for it.
PlacesOf(r, rows) == [i \in 1..Len(rows) |-> (r - 1) * Len(rows) + i]

InitPair ==
    /\ \E ab \in PairPrefs : attrs = [r \in Reqs |-> ab[r]]
    /\ \E rows \in HeapsOver(MaxPlaces) :
          /\ heap = Copies(rows)
          /\ places = [r \in Reqs |-> PlacesOf(r, rows)]
    /\ pc = [r \in Reqs |-> "start"]

\* One request whose candidate list reaches the review window's edge.
InitLong ==
    /\ \E a \in LongPrefs : attrs = Single(a, IdlePrefs)
    /\ \E n \in TOP_K..MaxLong, spread \in {0, 100} :
          \E rv \in [LongSlots(n) -> LongReviews] : heap = LongHeap(n, spread, rv)
    /\ places = Single(AllOf(heap), <<>>)
    /\ pc = Single("start", "idle")

Init ==
    /\ InitShort \/ InitLong \/ InitPair
    /\ ranked = [r \in Reqs |-> <<>>]
    /\ final = [r \in Reqs |-> <<>>]
    /\ weights = WEIGHTS

\* The state after rank_places has left res.
Ranked(r, res) ==
    /\ attrs' = [attrs EXCEPT ![r] = res.attrs]
    /\ heap' = res.heap
    /\ ranked' = [ranked EXCEPT ![r] = res.ranked]
    /\ pc' = [pc EXCEPT ![r] = IF res.raised THEN "raised" ELSE "ranked"]

\* ranked = rank_places(attrs, filtered)             (recommendations.py:189)
RankPlaces(r) ==
    /\ pc[r] = "start"
    /\ Ranked(r, rank_places(attrs[r], heap, places[r]))
    /\ weights' = BaseAfter(attrs[r], weights)
    /\ UNCHANGED <<places, final>>

\* The state after re_rank_with_reviews has left res.
ReRanked(r, res) ==
    /\ heap' = res.heap
    /\ final' = [final EXCEPT ![r] = res.ranked]

\* ranked = re_rank_with_reviews(req.query, attrs, ranked)
\*                                                   (recommendations.py:190)
ReRank(r) ==
    /\ pc[r] = "ranked"
    /\ ReRanked(r, re_rank_with_reviews(attrs[r].raw_query, attrs[r], heap, ranked[r]))
    /\ pc' = [pc EXCEPT ![r] = "done"]
    /\ UNCHANGED <<attrs, places, ranked, weights>>

Next == \E r \in Reqs : RankPlaces(r) \/ ReRank(r)

Spec == Init /\ [][Next]_vars

-----------------------------------------------------------------------------
(* The scorers and the weight adjuster over their own inputs: the same     *)
(* calls, on preference objects and candidates that walk the branches of   *)
(* adjust_dynamic_weights, classify_cuisine_relation and budget_similarity *)

\* Preferences for the weight adjuster: every combination of the signals of
\* its fallback branches, and lists of ranking preferences over a request
\* that carries the other signals too.
WeightPrefs ==
    { [BasePrefs EXCEPT !.distance_preference = d, !.raw_query = q, !.budget = b,
                        !.cuisine = c, !.food_style = fs] :
        d \in {"", "nearby", "walking distance"},
        q \in {"dinner", "Top Rated dinner"},
        b \in {Null, Num(0), Num(200)},
        c \in {"", "south indian"},
        fs \in {<<>>, <<"spicy">>} }
    \cup { [BasePrefs EXCEPT !.raw_query = "dosa", !.dish = Str("dosa"),
                             !.inferred_cuisine_from_dish = "south indian"] }
    \cup { [BasePrefs EXCEPT !.ranking_preferences = rp, !.raw_query = "popular dinner",
                             !.distance_preference = "nearby", !.budget = Num(200),
                             !.cuisine = "south indian"] :
             rp \in { <<"budget">>, <<"distance">>, <<"popularity">>, <<"rating">>,
                      <<"cuisine">>, <<"style">>, <<"Budget">>, <<"", "style">>,
                      <<"taste">>, <<"budget", "distance">>,
                      <<"rating", "popularity">>, <<"taste", "spice">>,
                      <<"budget", "taste", "Budget", "distance">>,
                      <<"Style", "cuisine", "">> } }

\* Preferences that name a cuisine, or a dish the cuisine is inferred from.
CuisinePrefs ==
    { [BasePrefs EXCEPT !.raw_query = "dinner", !.cuisine = c] :
        c \in {"", "kerala", "Andhra", "south indian", "indian", "north indian",
               "punjabi", "bengali", "chinese", "tamil nadu"} }
    \cup { [BasePrefs EXCEPT !.raw_query = "dinner", !.dish = Str("biryani"),
                             !.inferred_cuisine_from_dish = c] :
             c \in {"indian", "north indian"} }

\* Candidates by category and cuisine text.
CuisineCands ==
    { MkPlace("Place", cc[1], cc[2], "", Num(40), Num(1000), Num(200), <<>>) :
        cc \in { <<"", "">>, <<"", "Kerala, Seafood">>, <<"South Indian", "">>,
                 <<"indian", "Indian">>, <<"North Indian", "Punjabi">>,
                 <<"Punjabi Dhaba", "">>, <<"Chinese", "">>,
                 <<"Bengali Sweets", "">>, <<"Multi Cuisine", "North Indian">>,
                 <<"Indian Chinese", "">>, <<"Tamil Nadu", "South Indian">> } }

\* price_level values around the steps of budget_similarity for the budgets
\* 100 and 200, a missing one and one that is no number.
PriceLevels ==
    { Null, Str("n/a"), Num(100), Num(101), Num(130), Num(131), Num(160),
      Num(161), Num(200), Num(201), Num(260), Num(261), Num(320), Num(321) }

\* Preferences that set the mood, the food styles and the dish the boosts
\* read.
FactorPrefs ==
    { [BasePrefs EXCEPT !.raw_query = "something for tonight", !.mood = m,
                        !.food_style = fs, !.dish = f[1], !.cuisine = f[2]] :
        m \in {"", "Comfort food after a rough day", "birthday party",
               "feeling sad at a party"},
        fs \in {<<>>, <<"Spicy">>, <<"light", "comfort", "soft">>},
        f \in { <<Null, "">>, <<Str("biryani"), "north indian">>,
                <<List(<<"Dosa", "idli">>), "south indian">> } }

\* Candidates at the ends of the factor scorers: popularity below 0, at 5.0,
\* just above it and above 10; distance missing, negative, 0 and far;
\* category and tags that collect every comfort bonus or every penalty.
FactorCands ==
    { MkPlace("Green Leaf", "Vegetarian South Indian", "South Indian",
              "healthy light soft home-style", Num(120), Num(0), Num(150), <<>>),
      MkPlace("Wok Fry", "Fast Food Chinese", "Chinese",
              "fried oily", Num(0 - 10), Num(0 - 5), Null, <<>>),
      MkPlace("Mughal Darbar", "North Indian Mughlai", "North Indian",
              "biryani tandoori", Num(51), Num(12500), Num(300), <<>>),
      MkPlace("Corner Stall", "", "", "", Null, Null, Null, <<>>),
      MkPlace("Cake Shop", "Dessert Bakery", "", "sweet", Num(50), Num(1), Num(120), <<>>),
      MkPlace("Indian Kitchen", "indian", "Indian",
              "indian", Str("4.5"), Str("n/a"), Num(200), <<>>) }

\* Queries of stop words only and of dish words, alone and with structured
\* preferences.
ReviewPrefs ==
    { [BasePrefs EXCEPT !.raw_query = q, !.cuisine = f[1], !.dish = f[2],
                        !.food_style = f[3]] :
        q \in {"I want some food near me", "Crispy DOSA, please!",
               "soft idli and dosa for me"},
        f \in { <<"", Null, <<>>>>,
                <<"south indian", List(<<"Masala Dosa", "idli">>), <<"crispy">>>> } }

\* One candidate under review lists that are missing, blank, of stop words
\* only, and of words the queries share in part.
ReviewCands ==
    { MkPlace("Dosa Corner", "south indian", "South Indian", "south indian soft",
              Num(38), Num(2500), Num(200), rv) :
        rv \in { <<>>, <<"  ">>, <<"The and, or... too!">>,
                 <<"Crispy dosa and soft idli", "">>,
                 <<"Great masala dosa. Crispy; South-Indian style!">> } }

\* Two branches of one restaurant as rows without a place_id: the conversion
\* falls back to the name (data_normalizer.py:18), so both carry the same
\* place_id.  Only the first has review text.
BranchCands ==
    << MkPlace("Dosa Corner", "south indian", "South Indian", "south indian soft",
               Num(38), Num(2500), Num(200), <<"Crispy dosa and soft idli", "">>),
       MkPlace("Dosa Corner", "south indian", "South Indian", "south indian soft",
               Num(35), Num(4000), Num(200), <<>>) >>

\* Preferences objects that went through rank_places before and still carry
\* the two flags that call left.
ReusedPrefs ==
    { [BasePrefs EXCEPT !.raw_query = "the same again", !.cuisine = c, !.dish = d,
                        !.veg_only = v, !.fallback_type = f[1], !.dish_fallback = f[2]] :
        c \in {"", "kerala", "south indian"},
        d \in {Null, Str("dosa")},
        v \in {FALSE, TRUE},
        f \in {<<"cuisine_family_fallback", "True">>, <<"None", "False">>} }

InitScorers ==
    /\ \/ /\ \E a \in WeightPrefs : attrs = Single(a, IdlePrefs)
          /\ heap \in HeapsOver(1)
       \/ /\ \E a \in CuisinePrefs : attrs = Single(a, IdlePrefs)
          /\ \E c \in CuisineCands : heap = << [c EXCEPT !.place_id = PlaceId(1)] >>
       \/ /\ \E b \in {Null, Num(0), Num(100), Num(200)} :
                attrs = Single([BasePrefs EXCEPT !.raw_query = "dinner", !.budget = b],
                               IdlePrefs)
          /\ \E p \in PriceLevels, q \in PriceLevels :
                heap = [i \in 1..2 |->
                          [MkPlace("Place", "Cafe", "", "", Num(40), Num(1000),
                                   IF i = 1 THEN p ELSE q, <<>>)
                              EXCEPT !.place_id = PlaceId(i)]]
       \/ /\ \E a \in FactorPrefs : attrs = Single(a, IdlePrefs)
          /\ \E c \in FactorCands : heap = << [c EXCEPT !.place_id = PlaceId(1)] >>
       \/ /\ \E a \in ReviewPrefs : attrs = Single(a, IdlePrefs)
          /\ \E c \in ReviewCands : heap = << [c EXCEPT !.place_id = PlaceId(1)] >>
       \/ /\ \E a \in ReviewPrefs : attrs = Single(a, IdlePrefs)
          /\ heap = [i \in 1..2 |->
                       [BranchCands[i] EXCEPT !.place_id = BranchCands[i].name]]
       \/ /\ \E a \in ReusedPrefs : attrs = Single(a, IdlePrefs)
          /\ heap \in HeapsOver(1)
       \/ /\ \E m \in {Num(0), Num(1200), Num(2500)} :
                attrs = Single([BasePrefs EXCEPT !.raw_query = "dinner within reach",
                                                 !.max_distance_m = m], IdlePrefs)
          /\ heap \in HeapsOver(2)
    /\ places = Single(AllOf(heap), <<>>)
    /\ pc = Single("start", "idle")
    /\ ranked = [r \in Reqs |-> <<>>]
    /\ final = [r \in Reqs |-> <<>>]
    /\ weights = WEIGHTS

SpecScorers == InitScorers /\ [][Next]_vars

-----------------------------------------------------------------------------
(* Properties                                                              *)

C2_WeightsSumToOne ==
    \A r \in Reqs :
        pc[r] # "idle" =>
            adjust_dynamic_weights(attrs[r], WEIGHTS).cuisine_match
            + adjust_dynamic_weights(attrs[r], WEIGHTS).style_match
            + adjust_dynamic_weights(attrs[r], WEIGHTS).popularity
            + adjust_dynamic_weights(attrs[r], WEIGHTS).distance
            + adjust_dynamic_weights(attrs[r], WEIGHTS).budget
            = adjust_dynamic_weights(attrs[r], WEIGHTS).den

\* C3 (as the code has it): rank_places and re_rank_with_reviews write
\* score, reason and score_with_reviews in place, on the records of the list
\* they are handed, and return those records; the endpoint hands each
\* request records built for it, so a request that has not ranked yet finds
\* its records without the fields whatever the other request has done, and
\* the score and the score with reviews a request gets back are the ones
\* computed from its own preferences.
C3_InPlaceOnOwnRecords ==
    \A r \in Reqs :
        /\ pc[r] \in {"idle", "start"} =>
              \A i \in 1..Len(places[r]) :
                  /\ heap[places[r][i]].score = Absent
                  /\ heap[places[r][i]].reason = ""
                  /\ heap[places[r][i]].score_with_reviews = Absent
        /\ pc[r] \in {"ranked", "done"} =>
              \A i \in 1..Len(ranked[r]) :
                  /\ \E j \in 1..Len(places[r]) : places[r][j] = ranked[r][i]
                  /\ heap[ranked[r][i]].score
                         = Clamp01(RawScore(attrs[r], heap[ranked[r][i]]))
                  /\ heap[ranked[r][i]].reason # ""
        /\ pc[r] = "done" =>
              \A i \in 1..Len(final[r]) :
                  \/ heap[final[r][i]].score_with_reviews = Absent
                  \/ heap[final[r][i]].score_with_reviews = heap[final[r][i]].score
                  \/ heap[final[r][i]].score_with_reviews
                         = Blend(heap[final[r][i]].score,
                                 review_match_score(attrs[r].raw_query, attrs[r],
                                                    flatten_reviews(heap[final[r][i]])))

\* C3 as stated: the score each request gets back is the one computed from
\* its own preferences, and the records of the list the caller passed in are
\* left without score, reason and score_with_reviews.
C3_AnnotationsOnCopies ==
    \A r \in Reqs :
        pc[r] \in {"ranked", "done"} =>
            /\ \A i \in 1..Len(ranked[r]) :
                  heap[ranked[r][i]].score = compute_score(attrs[r], heap[ranked[r][i]])
            /\ \A i \in 1..Len(places[r]) :
                  /\ heap[places[r][i]].score = Absent
                  /\ heap[places[r][i]].reason = ""
                  /\ heap[places[r][i]].score_with_reviews = Absent

\* Two requests with different preferences have both ranked their records
\* of the same source row, and the two records carry different scores.
C3_TwoRequestsOneRow ==
    /\ pc[1] = "done"
    /\ pc[2] \in {"ranked", "done"}
    /\ Len(places[1]) = Len(places[2])
    /\ \E i \in 1..Len(ranked[1]), j \in 1..Len(ranked[2]) :
          /\ heap[ranked[1][i]].place_id = heap[ranked[2][j]].place_id
          /\ heap[ranked[1][i]].score # heap[ranked[2][j]].score

\* C4 (as the code has it): when every candidate of the list passed to
\* re_rank_with_reviews has empty review text, the list comes back in the same
\* order with its records as they were: no score_with_reviews is written,
\* no review snippet is added to a reason, and the score read in the field's
\* place is the candidate's score.
C4_NoReviewsNoOp ==
    \A r \in Reqs :
        (/\ pc[r] = "done"
         /\ \A i \in 1..Len(ranked[r]) :
                IsBlank(flatten_reviews(heap[ranked[r][i]])))
        => /\ final[r] = ranked[r]
           /\ \A i \in 1..Len(final[r]) :
                 /\ heap[final[r][i]].score_with_reviews = Absent
                 /\ EffectiveScore(heap[final[r][i]]) = heap[final[r][i]].score
                 /\ ~Contains(heap[final[r][i]].reason, "Reviews highlight")

\* C4 as stated: in that case the order is kept and every returned item has
\* the field score_with_reviews, equal to its score.
C4_NoReviewsFieldPresent ==
    \A r \in Reqs :
        (/\ pc[r] = "done"
         /\ \A i \in 1..Len(ranked[r]) :
                IsBlank(flatten_reviews(heap[ranked[r][i]])))
        => /\ final[r] = ranked[r]
           /\ \A i \in 1..Len(final[r]) :
                 heap[final[r][i]].score_with_reviews = heap[final[r][i]].score

\* re_rank_with_reviews has returned a list of two or more candidates none of
\* which has review text, one of them with a review list of blanks only.
C4_NoReviewsCase ==
    \E r \in Reqs :
        /\ pc[r] = "done"
        /\ Len(ranked[r]) >= 2
        /\ \A i \in 1..Len(ranked[r]) : IsBlank(flatten_reviews(heap[ranked[r][i]]))
        /\ \E i \in 1..Len(ranked[r]) : heap[ranked[r][i]].reviews_list # <<>>

C6_NeverRaises == \A r \in Reqs : pc[r] # "raised"

\* C7 (as the code has it): after rank_places, _fallback_type is
\* "cuisine_family_fallback" exactly when a cuisine (explicit or inferred
\* from the dish) was requested, the selected set is not empty, and no
\* selected candidate has the cuisine as a substring of its category or
\* cuisine text; otherwise it is None.
C7_FallbackType ==
    \A r \in Reqs :
        pc[r] \in {"ranked", "done"} =>
            attrs[r].fallback_type =
                IF /\ UserCuisine(attrs[r]) # ""
                   /\ ranked[r] # <<>>
                   /\ \A i \in 1..Len(ranked[r]) :
                         /\ ~Contains(Lower(heap[ranked[r][i]].category),
                                      Lower(UserCuisine(attrs[r])))
                         /\ ~Contains(Lower(heap[ranked[r][i]].cuisine),
                                      Lower(UserCuisine(attrs[r])))
                THEN "cuisine_family_fallback"
                ELSE "None"

\* C7 as stated: the flag is set whenever a cuisine was requested and no
\* selected candidate contains it, an empty selected set included.
C7_FallbackTypeEmptyToo ==
    \A r \in Reqs :
        pc[r] \in {"ranked", "done"} =>
            attrs[r].fallback_type =
                IF /\ UserCuisine(attrs[r]) # ""
                   /\ \A i \in 1..Len(ranked[r]) :
                         /\ ~Contains(Lower(heap[ranked[r][i]].category),
                                      Lower(UserCuisine(attrs[r])))
                         /\ ~Contains(Lower(heap[ranked[r][i]].cuisine),
                                      Lower(UserCuisine(attrs[r])))
                THEN "cuisine_family_fallback"
                ELSE "None"

\* rank_places was given candidates and a requested cuisine, selected none
\* of them, and left _fallback_type None.
C7_EmptySelection ==
    \E r \in Reqs :
        /\ pc[r] \in {"ranked", "done"}
        /\ UserCuisine(attrs[r]) # ""
        /\ places[r] # <<>>
        /\ ranked[r] = <<>>
        /\ attrs[r].fallback_type = "None"

\* C8: for a requested dish with a hint whose cuisine or category the
\* candidate's category contains, dish_boost is 0.25 when the cuisine
\* relation is strong, 0.15 when it is weak and 0 when it is none; so for the
\* dish "dosa", a candidate of category "south indian" and a strong
\* relation it is 0.25.
C8_DishBoostRule ==
    \A r \in Reqs :
        \A i \in 1..Len(places[r]) :
            LET place == heap[places[r][i]]
                dish == attrs[r].dish
                relation == classify_cuisine_relation(attrs[r], place)
                boost == dish_boost(attrs[r], place)
            IN  /\ (/\ Truthy(dish)
                    /\ dish.t \in {"str", "list"}
                    /\ DishHintMatches(IF dish.t = "str" THEN <<Lower(dish.s)>>
                                       ELSE LowerAll(dish.l),
                                       Lower(place.category)))
                   => \/ relation = "strong" /\ boost = 250000
                      \/ relation = "weak" /\ boost = 150000
                      \/ relation = "none" /\ boost = 0
                /\ (dish = Str("dosa") /\ place.category = "south indian"
                    /\ relation = "strong")
                   => boost = 250000

\* rank_places has returned a candidate of category "south indian" to a
\* request for the dish "dosa" whose relation to it is strong, with the
\* boost 0.25.
C8_ScenarioD ==
    \E r \in Reqs :
        /\ pc[r] = "ranked"
        /\ attrs[r].dish = Str("dosa")
        /\ \E i \in 1..Len(ranked[r]) :
              /\ heap[ranked[r][i]].category = "south indian"
              /\ classify_cuisine_relation(attrs[r], heap[ranked[r][i]]) = "strong"
              /\ dish_boost(attrs[r], heap[ranked[r][i]]) = 250000

\* C9: with veg_only, every candidate rank_places returns has "vegetarian"
\* in its cuisine and category text; without veg_only the filter drops
\* nothing: a candidate that is not returned is beyond the distance limit, of
\* an avoided cuisine, or left out by the choice of the bucket.
C9_VegOnly ==
    \A r \in Reqs :
        pc[r] \in {"ranked", "done"} =>
            /\ attrs[r].veg_only =>
                  \A i \in 1..Len(ranked[r]) :
                      Contains(Lower(heap[ranked[r][i]].cuisine) \o " "
                                   \o Lower(heap[ranked[r][i]].category),
                               "vegetarian")
            /\ ~attrs[r].veg_only =>
                  \A i \in 1..Len(places[r]) :
                      \/ \E j \in 1..Len(ranked[r]) : ranked[r][j] = places[r][i]
                      \/ TooFar(attrs[r], heap[places[r][i]])
                      \/ Avoided(attrs[r], heap[places[r][i]])
                      \/ user_has_specific_preference(attrs[r])

\* A veg-only request over a "Non-Veg Biryani" and a "Vegetarian South
\* Indian" candidate got back the vegetarian one alone.
C9_ScenarioA ==
    \E r \in Reqs :
        /\ pc[r] = "ranked"
        /\ attrs[r].veg_only
        /\ Len(places[r]) = 2
        /\ heap[places[r][1]].category = "Non-Veg Biryani"
        /\ heap[places[r][2]].category = "Vegetarian South Indian"
        /\ ranked[r] = <<places[r][2]>>

\* C10: rank_places returns its candidates in non-increasing score order and
\* re_rank_with_reviews returns its list in non-increasing order of the
\* score with reviews; in each pass two candidates with equal keys keep the
\* order they had in the list the pass was given.
C10_StableDescending ==
    \A r \in Reqs :
        /\ pc[r] \in {"ranked", "done"} =>
              \A i, j \in 1..Len(ranked[r]) :
                  i < j =>
                      /\ heap[ranked[r][i]].score >= heap[ranked[r][j]].score
                      /\ heap[ranked[r][i]].score = heap[ranked[r][j]].score
                         => (CHOOSE k \in 1..Len(places[r]) : places[r][k] = ranked[r][i])
                            < (CHOOSE k \in 1..Len(places[r]) : places[r][k] = ranked[r][j])
        /\ pc[r] = "done" =>
              \A i, j \in 1..Len(final[r]) :
                  i < j =>
                      /\ EffectiveScore(heap[final[r][i]]) >= EffectiveScore(heap[final[r][j]])
                      /\ EffectiveScore(heap[final[r][i]]) = EffectiveScore(heap[final[r][j]])
                         => (CHOOSE k \in 1..Len(ranked[r]) : ranked[r][k] = final[r][i])
                            < (CHOOSE k \in 1..Len(ranked[r]) : ranked[r][k] = final[r][j])

\* A re-ranked list in which a blended candidate moved ahead of one that
\* rank_places had put before it, and two candidates tie on the score with
\* reviews.
C10_TieAndMove ==
    \E r \in Reqs :
        /\ pc[r] = "done"
        /\ final[r] # ranked[r]
        /\ \E i, j \in 1..Len(final[r]) :
              /\ i < j
              /\ heap[final[r][i]].score_with_reviews # Absent
              /\ heap[final[r][i]].score_with_reviews
                     = heap[final[r][j]].score_with_reviews

\* C11: with pairwise distinct place_ids, rank_places returns each candidate
\* at most once and only candidates of its input; a candidate it does not
\* return failed the veg/distance filter, matched an avoided cuisine, or sits
\* in a bucket other than the selected one; and re_rank_with_reviews returns
\* a permutation of the list it is given.
C11_NoDuplicatesNoDrops ==
    \A r \in Reqs :
        /\ pc[r] \in {"ranked", "done"} =>
              /\ \A i, j \in 1..Len(ranked[r]) :
                    i # j => /\ ranked[r][i] # ranked[r][j]
                             /\ heap[ranked[r][i]].place_id # heap[ranked[r][j]].place_id
              /\ \A i \in 1..Len(ranked[r]) :
                    \E j \in 1..Len(places[r]) : places[r][j] = ranked[r][i]
              /\ \A j \in 1..Len(places[r]) :
                    (\A i \in 1..Len(ranked[r]) : ranked[r][i] # places[r][j]) =>
                        \/ ~PassesHardFilter(attrs[r], heap[places[r][j]])
                        \/ Avoided(attrs[r], heap[places[r][j]])
                        \/ /\ user_has_specific_preference(attrs[r])
                           /\ \E i \in 1..Len(ranked[r]) :
                                  Bucket(attrs[r], heap[ranked[r][i]])
                                      # Bucket(attrs[r], heap[places[r][j]])
        /\ pc[r] = "done" =>
              /\ Len(final[r]) = Len(ranked[r])
              /\ \A i \in 1..Len(ranked[r]) :
                    Cardinality({j \in 1..Len(final[r]) : final[r][j] = ranked[r][i]}) = 1

\* One request lost a candidate to a filter and kept another, and the
\* second pass moved a reviewed candidate of some request to another place
\* in the list.
C11_FilteredAndReordered ==
    /\ \E r \in Reqs :
          /\ pc[r] = "done"
          /\ ranked[r] # <<>>
          /\ Len(ranked[r]) < Len(places[r])
    /\ \E r \in Reqs :
          /\ pc[r] = "done"
          /\ final[r] # ranked[r]
          /\ \E i \in 1..Len(final[r]) :
                heap[final[r][i]].score_with_reviews \notin {Absent, heap[final[r][i]].score}

C12_SingleTokenDominates ==
    \A r \in Reqs :
        LET rp == attrs[r].ranking_preferences
            w == adjust_dynamic_weights(attrs[r], weights)
            keys == {"cuisine_match", "style_match", "popularity", "distance", "budget"}
            Mapped(k) ==
                \/ k = "budget" /\ rp \in {<<"budget">>, <<"Budget">>}
                \/ k = "distance" /\ rp = <<"distance">>
                \/ k = "popularity" /\ rp \in {<<"popularity">>, <<"rating">>}
                \/ k = "cuisine_match" /\ rp = <<"cuisine">>
                \/ k = "style_match" /\ rp = <<"style">>
        IN  \A k \in keys :
                Mapped(k) =>
                    /\ w[k] = 90
                    /\ w.den = 98
                    /\ \A j \in keys \ {k} : w[j] = 2 /\ w[j] < w[k]

\* A request whose only ranking preference is "rating" has been ranked over
\* a candidate.
C12_RatingOnly ==
    \E r \in Reqs :
        /\ pc[r] = "ranked"
        /\ attrs[r].ranking_preferences = <<"rating">>
        /\ ranked[r] # <<>>

\* C14: cuisine_match_score is exactly 0.5 for every candidate when neither
\* cuisine nor inferred_cuisine_from_dish is set, and otherwise 1.0, 0.6 or
\* 0.0 as classify_cuisine_relation yields strong, weak or none.
C14_CuisineMatchScore ==
    \A r \in Reqs : \A i \in 1..Len(places[r]) :
        LET a == attrs[r]
            place == heap[places[r][i]]
            relation == classify_cuisine_relation(a, place)
        IN  cuisine_match_score(a, place) =
                IF a.cuisine = "" /\ a.inferred_cuisine_from_dish = "" THEN 500000
                ELSE CASE relation = "strong" -> 1000000
                       [] relation = "weak" -> 600000
                       [] relation = "none" -> 0

\* A request whose cuisine is only inferred from its dish has been ranked
\* over a candidate of a related family, which scores 0.6.
C14_InferredWeak ==
    \E r \in Reqs :
        /\ pc[r] = "ranked"
        /\ attrs[r].cuisine = ""
        /\ attrs[r].inferred_cuisine_from_dish # ""
        /\ \E i \in 1..Len(ranked[r]) :
              /\ classify_cuisine_relation(attrs[r], heap[ranked[r][i]]) = "weak"
              /\ cuisine_match_score(attrs[r], heap[ranked[r][i]]) = 600000

\* C15: for a fixed budget b, budget_similarity(b, p) does not increase as
\* the price p rises: it is 1.0 for p <= b, 0.7 for b < p <= 1.3 b, 0.4 for
\* 1.3 b < p <= 1.6 b and 0.1 above; and it is 0.5 when the budget or the
\* price is missing.
C15_BudgetSimilaritySteps ==
    \A r \in Reqs : \A i, j \in 1..Len(places[r]) :
        LET b == attrs[r].budget
            p == heap[places[r][i]].price_level
            q == heap[places[r][j]].price_level
        IN  /\ (b.t = "null" \/ p.t = "null") => budget_similarity(b, p) = 500000
            /\ (b.t = "num" /\ p.t = "num") =>
                  budget_similarity(b, p) =
                      IF p.n <= b.n THEN 1000000
                      ELSE IF 10 * p.n <= 13 * b.n THEN 700000
                      ELSE IF 10 * p.n <= 16 * b.n THEN 400000
                      ELSE 100000
            /\ (b.t = "num" /\ p.t = "num" /\ q.t = "num" /\ p.n <= q.n) =>
                  budget_similarity(b, p) >= budget_similarity(b, q)

\* A request with a budget of 200 has been ranked over one candidate priced
\* at 1.3 times the budget and one priced a rupee above it: the first scores
\* 0.7, the second 0.4.
C15_AcrossAStep ==
    \E r \in Reqs :
        /\ pc[r] = "ranked"
        /\ attrs[r].budget = Num(200)
        /\ \E i, j \in 1..Len(ranked[r]) :
              /\ heap[ranked[r][i]].price_level = Num(260)
              /\ heap[ranked[r][j]].price_level = Num(261)
              /\ budget_similarity(attrs[r].budget, heap[ranked[r][i]].price_level) = 700000
              /\ budget_similarity(attrs[r].budget, heap[ranked[r][j]].price_level) = 400000

\* C16: with a cuisine or dish preference, rank_places returns exactly the
\* surviving candidates classified strong if there is one, else exactly
\* those classified weak if there is one, else the remaining (neutral)
\* ones; without such a preference it returns all surviving candidates.  A
\* weak or unrelated candidate is never returned together with a strong one.
C16_BucketSelection ==
    \A r \in Reqs :
        pc[r] \in {"ranked", "done"} =>
            LET a == attrs[r]
                surviving == {x \in {places[r][i] : i \in 1..Len(places[r])} :
                                 /\ a.veg_only => is_veg_place(heap[x])
                                 /\ ~TooFar(a, heap[x])
                                 /\ ~Avoided(a, heap[x])}
                Of(rel) == {x \in surviving : classify_cuisine_relation(a, heap[x]) = rel}
                returned == {ranked[r][i] : i \in 1..Len(ranked[r])}
                preference == a.cuisine # "" \/ a.inferred_cuisine_from_dish # ""
                              \/ Truthy(a.dish)
            IN  /\ returned = IF ~preference THEN surviving
                              ELSE IF Of("strong") # {} THEN Of("strong")
                              ELSE IF Of("weak") # {} THEN Of("weak")
                              ELSE Of("none")
                /\ \A x, y \in returned :
                      classify_cuisine_relation(a, heap[x]) = "strong" =>
                          classify_cuisine_relation(a, heap[y]) = "strong"

\* A strong and a weak candidate both survived the filters, and only the
\* strong one was returned.
C16_StrongShadowsWeak ==
    \E r \in Reqs :
        /\ pc[r] = "ranked"
        /\ Len(ranked[r]) = 1
        /\ classify_cuisine_relation(attrs[r], heap[ranked[r][1]]) = "strong"
        /\ \E j \in 1..Len(places[r]) :
              /\ places[r][j] # ranked[r][1]
              /\ PassesHardFilter(attrs[r], heap[places[r][j]])
              /\ ~Avoided(attrs[r], heap[places[r][j]])
              /\ classify_cuisine_relation(attrs[r], heap[places[r][j]]) = "weak"

\* C17: classify_cuisine_relation is none when no user cuisine is set; strong
\* when the user cuisine is a substring of the candidate text (the category,
\* else the cuisine) or when both map to the same non-empty family; failing
\* that, weak exactly when the user family is south Indian and the
\* candidate's generic Indian, or the user family is generic Indian and the
\* candidate's south or north Indian; and none in every other case, a north
\* Indian user family against a generic Indian candidate included.
C17_CuisineRelation ==
    \A r \in Reqs : \A i \in 1..Len(places[r]) :
        LET a == attrs[r]
            place == heap[places[r][i]]
            uc == Lower(IF a.cuisine # "" THEN a.cuisine ELSE a.inferred_cuisine_from_dish)
            text == Lower(IF place.category # "" THEN place.category ELSE place.cuisine)
            uf == get_family(uc)
            pf == get_family(text)
            relation == classify_cuisine_relation(a, place)
        IN  /\ relation =
                  IF uc = "" THEN "none"
                  ELSE IF Contains(text, uc) \/ (uf # "" /\ uf = pf) THEN "strong"
                  ELSE IF \/ (uf = "south indian" /\ pf = "generic_indian")
                          \/ (uf = "generic_indian"
                              /\ pf \in {"south indian", "north indian"})
                  THEN "weak"
                  ELSE "none"
            /\ (uf = "north indian" /\ pf = "generic_indian") => relation = "none"

\* A request for a north Indian cuisine has been ranked over a generic
\* Indian candidate, which is unrelated and was returned from the neutral
\* bucket.
C17_NorthAgainstGeneric ==
    \E r \in Reqs :
        /\ pc[r] = "ranked"
        /\ get_family(Lower(attrs[r].cuisine)) = "north indian"
        /\ \E i \in 1..Len(ranked[r]) :
              /\ get_family(Lower(heap[ranked[r][i]].category)) = "generic_indian"
              /\ classify_cuisine_relation(attrs[r], heap[ranked[r][i]]) = "none"

\* C18: with empty ranking_preferences, adjust_dynamic_weights returns the
\* first preset whose condition holds, in this order: distance_preference
\* contains "near" -> distance-heavy; raw_query contains "popular", "high
\* rating" or "top rated" -> popularity-heavy; budget set (not null) ->
\* budget-heavy; cuisine or inferred cuisine set -> cuisine-heavy;
\* food_style non-empty -> style-heavy; otherwise the base weights.  Checked
\* on the vector rank_places scored a request with.
C18_FallbackPriority ==
    \A r \in Reqs :
        LET a == attrs[r]
            Preset(c, s, p, d, b) ==
                [cuisine_match |-> c, style_match |-> s, popularity |-> p,
                 distance |-> d, budget |-> b, den |-> 100]
        IN  (pc[r] \in {"ranked", "done"} /\ a.ranking_preferences = <<>>) =>
                adjust_dynamic_weights(a, weights) =
                    IF Contains(a.distance_preference, "near")
                    THEN Preset(10, 5, 15, 60, 10)
                    ELSE IF \E phrase \in {"popular", "high rating", "top rated"} :
                                Contains(Lower(a.raw_query), phrase)
                    THEN Preset(15, 5, 50, 20, 10)
                    ELSE IF a.budget.t # "null"
                    THEN Preset(15, 5, 10, 20, 50)
                    ELSE IF a.cuisine # "" \/ a.inferred_cuisine_from_dish # ""
                    THEN Preset(50, 10, 15, 20, 5)
                    ELSE IF a.food_style # <<>>
                    THEN Preset(25, 40, 10, 15, 10)
                    ELSE Preset(35, 15, 20, 15, 10)

\* C19 (as the code has it): when at least one of the first 15 candidates of
\* the list passed to re_rank_with_reviews has review text that is not blank,
\* each such candidate gets score_with_reviews = 0.75 * score + 0.25 *
\* review_match_score and a review snippet appended to its reason, and every
\* other candidate (past the first 15, or without review text) gets
\* score_with_reviews = score and keeps its reason.  When none of the first
\* 15 has review text, no record is written to: score_with_reviews stays
\* absent and every reason is kept.
C19_BlendInWindow ==
    \A r \in Reqs :
        pc[r] = "done" =>
            LET a == attrs[r]
                len == Len(ranked[r])
                Text(i) == flatten_reviews(heap[ranked[r][i]])
                Reviewed(i) == i <= 15 /\ ~IsBlank(Text(i))
                Ranking(i) ==
                    describe_top_factors(a, heap[ranked[r][i]],
                        Contributions(a, heap[ranked[r][i]],
                                      adjust_dynamic_weights(a, weights)))
                Blended(i) ==
                    /\ heap[ranked[r][i]].score_with_reviews
                           = (3 * heap[ranked[r][i]].score
                              + review_match_score(a.raw_query, a, Text(i))) \div 4
                    /\ heap[ranked[r][i]].reason
                           = Ranking(i) \o ". Reviews highlight: "
                                        \o short_review_summary(Text(i))
                Plain(i) ==
                    /\ heap[ranked[r][i]].score_with_reviews = heap[ranked[r][i]].score
                    /\ heap[ranked[r][i]].reason = Ranking(i)
            IN  IF \E i \in 1..len : Reviewed(i)
                THEN \A i \in 1..len : IF Reviewed(i) THEN Blended(i) ELSE Plain(i)
                ELSE \A i \in 1..len :
                         /\ heap[ranked[r][i]].score_with_reviews = Absent
                         /\ heap[ranked[r][i]].reason = Ranking(i)

\* C19 as stated: a candidate among the first 15 with review text gets the
\* blend and the snippet, and every other candidate gets score_with_reviews =
\* score and an unchanged reason.
C19_BlendOrScore ==
    \A r \in Reqs :
        pc[r] = "done" =>
            LET a == attrs[r]
                len == Len(ranked[r])
                Text(i) == flatten_reviews(heap[ranked[r][i]])
                Reviewed(i) == i <= 15 /\ ~IsBlank(Text(i))
                Ranking(i) ==
                    describe_top_factors(a, heap[ranked[r][i]],
                        Contributions(a, heap[ranked[r][i]],
                                      adjust_dynamic_weights(a, weights)))
                Blended(i) ==
                    /\ heap[ranked[r][i]].score_with_reviews
                           = (3 * heap[ranked[r][i]].score
                              + review_match_score(a.raw_query, a, Text(i))) \div 4
                    /\ heap[ranked[r][i]].reason
                           = Ranking(i) \o ". Reviews highlight: "
                                        \o short_review_summary(Text(i))
                Plain(i) ==
                    /\ heap[ranked[r][i]].score_with_reviews = heap[ranked[r][i]].score
                    /\ heap[ranked[r][i]].reason = Ranking(i)
            IN  \A i \in 1..len : IF Reviewed(i) THEN Blended(i) ELSE Plain(i)

\* A list longer than the review window has been re-ranked: its first
\* candidate has review text and was blended, one inside the window has none,
\* and the sixteenth has review text and was left at its score.
C19_WindowEdge ==
    \E r \in Reqs :
        /\ pc[r] = "done"
        /\ Len(ranked[r]) > 15
        /\ ~IsBlank(flatten_reviews(heap[ranked[r][1]]))
        /\ heap[ranked[r][1]].score_with_reviews # heap[ranked[r][1]].score
        /\ Contains(heap[ranked[r][1]].reason, ". Reviews highlight: ")
        /\ \E i \in 2..15 : IsBlank(flatten_reviews(heap[ranked[r][i]]))
        /\ ~IsBlank(flatten_reviews(heap[ranked[r][16]]))
        /\ heap[ranked[r][16]].score_with_reviews = heap[ranked[r][16]].score

\* C20 (as the code has it): after rank_places, _dish_fallback is true
\* exactly when a dish was requested, the selected set is not empty, and no
\* selected candidate has a requested dish token in its name, category and
\* tags text; otherwise it is false.  The candidates returned are those
\* selected from the preferences as they were passed in: the two flags do
\* not change the selection.
C20_DishFallback ==
    \A r \in Reqs :
        pc[r] \in {"ranked", "done"} =>
            LET a == attrs[r]
                asked == [a EXCEPT !.fallback_type = "absent", !.dish_fallback = "absent"]
                tokens == IF a.dish.t = "list" THEN a.dish.l ELSE <<a.dish.s>>
                Text(x) == Lower(heap[x].name \o " " \o heap[x].category
                                 \o " " \o heap[x].tags)
                selected ==
                    SelectCandidates(asked, heap,
                        SelectFlagged(places[r],
                                      [i \in 1..Len(places[r]) |->
                                          PassesHardFilter(asked, heap[places[r][i]])]))
            IN  /\ a.dish_fallback =
                      IF /\ Truthy(a.dish)
                         /\ ranked[r] # <<>>
                         /\ \A i \in 1..Len(ranked[r]) : \A j \in 1..Len(tokens) :
                               ~Contains(Text(ranked[r][i]), Lower(tokens[j]))
                      THEN "True"
                      ELSE "False"
                /\ {ranked[r][i] : i \in 1..Len(ranked[r])}
                       = {selected[i] : i \in 1..Len(selected)}

\* C20 as stated: the flag is true whenever a dish was requested and no
\* selected candidate's text contains a dish token, an empty selected set
\* included.
C20_DishFallbackEmptyToo ==
    \A r \in Reqs :
        pc[r] \in {"ranked", "done"} =>
            LET a == attrs[r]
                asked == [a EXCEPT !.fallback_type = "absent", !.dish_fallback = "absent"]
                tokens == IF a.dish.t = "list" THEN a.dish.l ELSE <<a.dish.s>>
                Text(x) == Lower(heap[x].name \o " " \o heap[x].category
                                 \o " " \o heap[x].tags)
                selected ==
                    SelectCandidates(asked, heap,
                        SelectFlagged(places[r],
                                      [i \in 1..Len(places[r]) |->
                                          PassesHardFilter(asked, heap[places[r][i]])]))
            IN  /\ a.dish_fallback =
                      IF /\ Truthy(a.dish)
                         /\ \A i \in 1..Len(ranked[r]) : \A j \in 1..Len(tokens) :
                               ~Contains(Text(ranked[r][i]), Lower(tokens[j]))
                      THEN "True"
                      ELSE "False"
                /\ {ranked[r][i] : i \in 1..Len(ranked[r])}
                       = {selected[i] : i \in 1..Len(selected)}

\* rank_places was given candidates and a requested dish, selected none of
\* them, and left _dish_fallback false.
C20_EmptySelectionDish ==
    \E r \in Reqs :
        /\ pc[r] \in {"ranked", "done"}
        /\ Truthy(attrs[r].dish)
        /\ places[r] # <<>>
        /\ ranked[r] = <<>>
        /\ attrs[r].dish_fallback = "False"

\* C21: when max_distance_m is set, no candidate rank_places returns has a
\* known distance_m above it, and a candidate whose distance_m is unknown is
\* never dropped by the distance filter: when such a candidate is not
\* returned, it failed the veg filter, matched an avoided cuisine, or sits in
\* a bucket other than the selected one.
C21_DistanceFilter ==
    \A r \in Reqs :
        (pc[r] \in {"ranked", "done"} /\ attrs[r].max_distance_m.t = "num") =>
            /\ \A i \in 1..Len(ranked[r]) :
                  heap[ranked[r][i]].distance_m.t = "num" =>
                      heap[ranked[r][i]].distance_m.n <= attrs[r].max_distance_m.n
            /\ \A j \in 1..Len(places[r]) :
                  (/\ heap[places[r][j]].distance_m.t = "null"
                   /\ \A i \in 1..Len(ranked[r]) : ranked[r][i] # places[r][j]) =>
                      \/ attrs[r].veg_only /\ ~is_veg_place(heap[places[r][j]])
                      \/ Avoided(attrs[r], heap[places[r][j]])
                      \/ \E i \in 1..Len(ranked[r]) :
                             Bucket(attrs[r], heap[ranked[r][i]])
                                 # Bucket(attrs[r], heap[places[r][j]])

\* A request with a distance limit and no other filter was given a
\* candidate beyond the limit and one of unknown distance: the first was
\* dropped and the second returned.
C21_FarDroppedUnknownKept ==
    \E r \in Reqs :
        /\ pc[r] = "ranked"
        /\ attrs[r].max_distance_m.t = "num"
        /\ ~attrs[r].veg_only
        /\ Len(places[r]) = 2
        /\ Len(ranked[r]) = 1
        /\ heap[ranked[r][1]].distance_m.t = "null"
        /\ \E j \in 1..2 :
              /\ heap[places[r][j]].distance_m.t = "num"
              /\ heap[places[r][j]].distance_m.n > attrs[r].max_distance_m.n

\* C22: no candidate rank_places returns has a category containing, in any
\* letter case, an entry of avoid_cuisine, so the avoided-cuisine part of its
\* avoid_penalty is 0; and for every candidate avoid_penalty is at most 0 and
\* is -0.4 for each avoided style found in the tags plus -0.4 for each avoided
\* cuisine found in the category.
C22_AvoidedCuisines ==
    \A r \in Reqs :
        /\ pc[r] \in {"ranked", "done"} =>
              \A i \in 1..Len(ranked[r]) :
                  /\ \A k \in 1..Len(attrs[r].avoid_cuisine) :
                        ~Contains(Lower(heap[ranked[r][i]].category),
                                  Lower(StrOf(attrs[r].avoid_cuisine[k])))
                  /\ avoid_penalty(attrs[r], heap[ranked[r][i]]) =
                        0 - 400000 * Cardinality(
                            {k \in 1..Len(attrs[r].avoid_food_style) :
                                 Contains(Lower(heap[ranked[r][i]].tags),
                                          Lower(attrs[r].avoid_food_style[k]))})
        /\ \A j \in 1..Len(places[r]) :
              /\ avoid_penalty(attrs[r], heap[places[r][j]]) <= 0
              /\ avoid_penalty(attrs[r], heap[places[r][j]]) =
                    0 - 400000 * (Cardinality(
                                      {k \in 1..Len(attrs[r].avoid_food_style) :
                                           Contains(Lower(heap[places[r][j]].tags),
                                                    Lower(attrs[r].avoid_food_style[k]))})
                                  + Cardinality(
                                      {k \in 1..Len(attrs[r].avoid_cuisine) :
                                           Contains(Lower(heap[places[r][j]].category),
                                                    Lower(StrOf(attrs[r].avoid_cuisine[k])))}))

\* A request avoiding a cuisine and a style was ranked: the candidate of the
\* avoided cuisine was dropped, and the returned candidate carries the
\* penalty of the avoided style alone.
C22_CuisineDroppedStylePenalised ==
    \E r \in Reqs :
        /\ pc[r] = "ranked"
        /\ attrs[r].avoid_cuisine # <<>>
        /\ Len(ranked[r]) = 1
        /\ avoid_penalty(attrs[r], heap[ranked[r][1]]) = 0 - 400000
        /\ \E j \in 1..Len(places[r]) :
              /\ Avoided(attrs[r], heap[places[r][j]])
              /\ avoid_penalty(attrs[r], heap[places[r][j]]) <= 0 - 400000

\* C23: for ranking_preferences holding two or more tokens, every key starts
\* at 0.02, every occurrence of a recognised token adds 0.4 to the key it
\* maps to (a repeated token adds again, an unrecognised token adds nothing),
\* and the vector is divided by its sum; every weight of the result is
\* strictly positive and every requested key weighs strictly more than every
\* key that was not requested.
C23_MultiTokenWeights ==
    \A r \in Reqs :
        LET prefs == CleanPrefs(attrs[r].ranking_preferences)
            w == adjust_dynamic_weights(attrs[r], weights)
            keys == {"cuisine_match", "style_match", "popularity", "distance", "budget"}
            TokensOf(k) ==
                CASE k = "budget" -> {"budget"}
                  [] k = "distance" -> {"distance"}
                  [] k = "popularity" -> {"popularity", "rating"}
                  [] k = "cuisine_match" -> {"cuisine"}
                  [] k = "style_match" -> {"style"}
            Occurrences(k) == Cardinality({i \in 1..Len(prefs) : prefs[i] \in TokensOf(k)})
        IN  Len(prefs) >= 2 =>
                /\ \A k \in keys : w[k] = 2 + 40 * Occurrences(k)
                /\ w.den = 10 + 40 * Cardinality({i \in 1..Len(prefs) :
                                                     \E k \in keys : prefs[i] \in TokensOf(k)})
                /\ w.den = w.cuisine_match + w.style_match + w.popularity
                               + w.distance + w.budget
                /\ \A k \in keys : w[k] > 0
                /\ \A k, j \in keys :
                       (Occurrences(k) > 0 /\ Occurrences(j) = 0) => w[k] > w[j]

\* A request whose ranking preferences repeat one recognised token, name a
\* second and carry an unrecognised third has been ranked.
C23_RepeatedAndUnknown ==
    \E r \in Reqs :
        /\ pc[r] = "ranked"
        /\ attrs[r].ranking_preferences = <<"budget", "taste", "Budget", "distance">>
        /\ adjust_dynamic_weights(attrs[r], weights).budget = 82

\* C24: every factor scorer stays in its range for every input: style_match
\* in [0, 1] and 0 when the style list or the tags are empty; popularity in
\* [0, 1], raw/5 for raw <= 5 and raw/10 above it, clamped, 0 when missing;
\* dish_boost one of 0, 0.15, 0.25; mood_boost in [-0.25, 0.25];
\* style_inference_boost in [-0.25, 0.25], 0.08 for each matched hint up to
\* the clamp; the distance score 1.0 for a distance <= 0 and 0.5 for an
\* unknown one.
C24_FactorRanges ==
    \A r \in Reqs :
        \A j \in 1..Len(places[r]) :
            LET a == attrs[r]
                p == heap[places[r][j]]
                pop == normalize_popularity(p.popularity)
            IN  /\ style_score_fn(a, p) \in 0..Unit
                /\ (a.food_style = <<>> \/ p.tags = "") => style_score_fn(a, p) = 0
                /\ pop \in 0..Unit
                /\ p.popularity.t = "null" => pop = 0
                /\ p.popularity.t = "num" =>
                       pop = IF p.popularity.n < 0 THEN 0
                             ELSE IF p.popularity.n <= 50 THEN p.popularity.n * 20000
                             ELSE IF p.popularity.n <= 100 THEN p.popularity.n * 10000
                             ELSE Unit
                /\ dish_boost(a, p) \in {0, 150000, 250000}
                /\ mood_boost(a, p) \in (0 - 250000)..250000
                /\ style_inference_boost(a, p) \in {0, 80000, 160000, 240000, 250000}
                /\ p.distance_m.t = "null" => distance_score(p.distance_m) = 500000
                /\ (p.distance_m.t = "num" /\ p.distance_m.n <= 0) =>
                       distance_score(p.distance_m) = Unit

\* A comfort request with three food styles was ranked over a candidate
\* whose comfort bonuses sum to 0.28 and whose style hints match five times:
\* both boosts are at the clamp, the popularity above 10 scores 1.0 and the
\* distance 0 scores 1.0.
C24_BoostsAtTheClamp ==
    \E r \in Reqs :
        /\ pc[r] = "ranked"
        /\ Len(ranked[r]) = 1
        /\ attrs[r].food_style = <<"light", "comfort", "soft">>
        /\ mood_boost(attrs[r], heap[ranked[r][1]]) = 250000
        /\ style_inference_boost(attrs[r], heap[ranked[r][1]]) = 250000
        /\ heap[ranked[r][1]].popularity = Num(120)
        /\ normalize_popularity(heap[ranked[r][1]].popularity) = Unit
        /\ distance_score(heap[ranked[r][1]].distance_m) = Unit

\* C25: the reason rank_places attaches is never empty; its clauses stand in
\* the order budget, distance, popularity, cuisine, style, dish, mood; a
\* budget, distance, popularity, cuisine or style clause stands only when
\* that factor's weighted contribution is at least 0.05, a dish or mood
\* clause only when its contribution is above 0; and a reason without any
\* clause is the generic sentence.
C25_ReasonClauses ==
    \A r \in Reqs :
        pc[r] = "ranked" =>
            \A i \in 1..Len(ranked[r]) :
                LET p == heap[ranked[r][i]]
                    reason == p.reason
                    c == Contributions(attrs[r], p, adjust_dynamic_weights(attrs[r], WEIGHTS))
                    Openings ==
                        << {"Works well within your budget", "Slightly above your budget",
                            "Costs more than you planned", "A good fit for"},
                           {"Super close", "Very close at about", "Nearby at around",
                            "About "},
                           {"Extremely popular", "Well-loved place", "Generally well-rated"},
                           {"Perfect match for your", "Close match to your preferred"},
                           {"Matches your request for something"},
                           {"Good choice if you're craving"},
                           {"Fits your mood for"} >>
                    Has(k) == \E m \in Openings[k] : Contains(reason, m)
                    Starts(k) == {Find(reason, m) : m \in Openings[k]} \ {-1}
                    At(k) == CHOOSE n \in Starts(k) : \A j \in Starts(k) : n <= j
                IN  /\ reason # ""
                    /\ \A k, l \in 1..7 : (k < l /\ Has(k) /\ Has(l)) => At(k) < At(l)
                    /\ Has(1) => c.budget >= 50000 * c.den
                    /\ Has(2) => c.distance >= 50000 * c.den
                    /\ Has(3) => c.popularity >= 50000 * c.den
                    /\ Has(4) => c.cuisine >= 50000 * c.den
                    /\ Has(5) => c.style >= 50000 * c.den
                    /\ Has(6) => c.dish > 0
                    /\ Has(7) => c.mood > 0
                    /\ (\A k \in 1..7 : ~Has(k)) =>
                           reason = "Good overall match based on your preferences"

\* A request naming a cuisine, dishes, food styles and a comfort mood was
\* ranked over a close, popular candidate: the reason carries the six
\* clauses from distance to mood and, the budget contribution being 0.025,
\* no budget clause.
C25_SixClauses ==
    \E r \in Reqs :
        /\ pc[r] = "ranked"
        /\ Len(ranked[r]) = 1
        /\ attrs[r].mood # ""
        /\ heap[ranked[r][1]].reason =
              "Super close - just a short walk away. "
              \o "Extremely popular - highly rated by customers. "
              \o "Perfect match for your **south indian** preference. "
              \o "Matches your request for something **light, comfort, soft**. "
              \o "Good choice if you're craving **[Dosa, idli]**. "
              \o "Fits your mood for **" \o attrs[r].mood \o "** food"

\* C26: _review_match_score is the neutral 0.5 when the review text, the set
\* of query terms or the set of review tokens is empty, and otherwise
\* 0.3 + 0.7 * (|query terms /\ review tokens| / |query terms|), which lies
\* in [0.3, 1.0]; the query terms are the lower-case tokens, stop words left
\* out, of the raw query, the cuisine, the inferred cuisine, the mood, the
\* category hint, the dish token(s) and the food_style entries.
C26_ReviewMatchScore ==
    \A r \in Reqs :
        \A j \in 1..Len(places[r]) :
            LET a == attrs[r]
                text == flatten_reviews(heap[places[r][j]])
                q == build_query_terms(a.raw_query, a)
                t == tokenize(text)
                s == review_match_score(a.raw_query, a, text)
                dishes == IF a.dish.t = "str" THEN <<a.dish.s>>
                          ELSE IF a.dish.t = "list" THEN a.dish.l ELSE <<>>
                sources == <<a.raw_query, a.cuisine, a.inferred_cuisine_from_dish,
                             a.mood, a.category_hint>> \o dishes \o a.food_style
            IN  /\ IF text = "" \/ q = {} \/ t = {} THEN s = 500000
                   ELSE /\ s * Cardinality(q)
                               <= 300000 * Cardinality(q) + 700000 * Cardinality(q \cap t)
                        /\ (s + 1) * Cardinality(q)
                               > 300000 * Cardinality(q) + 700000 * Cardinality(q \cap t)
                        /\ s \in 300000..1000000
                /\ q = UNION {tokenize(sources[i]) : i \in 1..Len(sources)}
                /\ q \cap STOPWORDS = {}
                /\ \A w \in q : Lower(w) = w

\* A query of three terms was re-ranked over a candidate whose reviews hold
\* two of them: the match score is 0.3 + 0.7 * 2/3 and it is blended into
\* score_with_reviews.
C26_TwoOfThreeTerms ==
    \E r \in Reqs :
        /\ pc[r] = "done"
        /\ Len(final[r]) = 1
        /\ Cardinality(build_query_terms(attrs[r].raw_query, attrs[r])) = 3
        /\ review_match_score(attrs[r].raw_query, attrs[r],
                              flatten_reviews(heap[final[r][1]])) = 766666
        /\ heap[final[r][1]].score_with_reviews
               = (3 * heap[final[r][1]].score + 766666) \div 4

\* C27: in re_rank_with_reviews a candidate's score with reviews and reason
\* depend on its own score, input position and review text only: a candidate
\* without review text, or placed after the first 15, is reported with its
\* score and carries no review snippet, also when another candidate of the
\* list has the same place_id.
C27_OwnReviewsOnly ==
    \A r \in Reqs :
        pc[r] = "done" =>
            \A i \in 1..Len(ranked[r]) :
                (IsBlank(flatten_reviews(heap[ranked[r][i]])) \/ i > TOP_K) =>
                    /\ EffectiveScore(heap[ranked[r][i]]) = heap[ranked[r][i]].score
                    /\ ~Contains(heap[ranked[r][i]].reason, "Reviews highlight: ")

\* C28: re_rank_with_reviews is idempotent: applied to its own output with
\* the same query and preferences, it returns the same order, the same
\* score_with_reviews for every candidate and the same reasons.
C28_Idempotent ==
    \A r \in Reqs :
        pc[r] = "done" =>
            LET again == re_rank_with_reviews(attrs[r].raw_query, attrs[r], heap, final[r])
            IN  /\ again.ranked = final[r]
                /\ \A i \in 1..Len(final[r]) :
                      /\ again.heap[final[r][i]].score_with_reviews
                             = heap[final[r][i]].score_with_reviews
                      /\ again.heap[final[r][i]].reason = heap[final[r][i]].reason

\* C28, as the code has it: on a list of at most 15 candidates a second
\* application returns the same order and the same score_with_reviews for
\* every candidate, the blend being taken from `score` again; the reason of
\* a candidate with review text gets the review snippet a second time, and
\* every other reason is kept.
C28_SecondApplication ==
    \A r \in Reqs :
        (pc[r] = "done" /\ Len(final[r]) <= TOP_K) =>
            LET again == re_rank_with_reviews(attrs[r].raw_query, attrs[r], heap, final[r])
            IN  /\ again.ranked = final[r]
                /\ \A i \in 1..Len(final[r]) :
                      /\ again.heap[final[r][i]].score_with_reviews
                             = heap[final[r][i]].score_with_reviews
                      /\ again.heap[final[r][i]].reason =
                             IF IsBlank(flatten_reviews(heap[final[r][i]]))
                             THEN heap[final[r][i]].reason
                             ELSE heap[final[r][i]].reason \o ". Reviews highlight: "
                                  \o short_review_summary(flatten_reviews(heap[final[r][i]]))

\* A list of two candidates has been re-ranked, one blended with its
\* reviews and one without review text; a second application would add the
\* snippet to the first a second time.
C28_SnippetTwice ==
    \E r \in Reqs :
        /\ pc[r] = "done"
        /\ Len(final[r]) = 2
        /\ \E i, j \in 1..2 :
              /\ Contains(heap[final[r][i]].reason, "Reviews highlight: ")
              /\ heap[final[r][i]].score_with_reviews # heap[final[r][i]].score
              /\ IsBlank(flatten_reviews(heap[final[r][j]]))
              /\ re_rank_with_reviews(attrs[r].raw_query, attrs[r], heap,
                                      final[r]).heap[final[r][i]].reason
                     # heap[final[r][i]].reason

\* C29: when the preferences hold a dish but neither cuisine nor
\* inferred_cuisine_from_dish, classify_cuisine_relation is none for every
\* candidate, so dish_boost is 0 for every candidate, also for one whose
\* category matches the dish's hint; every surviving candidate is grouped as
\* neutral and returned, and no reason carries the dish clause.
C29_DishWithoutCuisine ==
    \A r \in Reqs :
        (/\ Truthy(attrs[r].dish)
         /\ attrs[r].cuisine = ""
         /\ attrs[r].inferred_cuisine_from_dish = "") =>
            /\ \A j \in 1..Len(places[r]) :
                  /\ classify_cuisine_relation(attrs[r], heap[places[r][j]]) = "none"
                  /\ dish_boost(attrs[r], heap[places[r][j]]) = 0
                  /\ Bucket(attrs[r], heap[places[r][j]]) = "neutral"
            /\ pc[r] \in {"ranked", "done"} =>
                  /\ \A i \in 1..Len(ranked[r]) :
                        ~Contains(heap[ranked[r][i]].reason, "Good choice if you're craving")
                  /\ \A j \in 1..Len(places[r]) :
                        (/\ ~(attrs[r].veg_only /\ ~is_veg_place(heap[places[r][j]]))
                         /\ ~TooFar(attrs[r], heap[places[r][j]])
                         /\ ~Avoided(attrs[r], heap[places[r][j]])) =>
                            \E i \in 1..Len(ranked[r]) : ranked[r][i] = places[r][j]

\* A request for a dish without a cuisine was ranked, and a candidate whose
\* category holds the cuisine the dish hints at was returned next to one
\* whose category does not.
C29_HintedCategoryUnboosted ==
    \E r \in Reqs :
        /\ pc[r] = "ranked"
        /\ attrs[r].dish = Str("dosa")
        /\ attrs[r].cuisine = ""
        /\ attrs[r].inferred_cuisine_from_dish = ""
        /\ Len(ranked[r]) = 2
        /\ \E i, j \in 1..2 :
              /\ Contains(Lower(heap[ranked[r][i]].category), "south indian")
              /\ ~Contains(Lower(heap[ranked[r][j]].category), "south indian")

\* C30: after every rank_places call that returns, calls with an empty or a
\* fully filtered candidate list included, both _fallback_type and
\* _dish_fallback have been rewritten on the preferences object from that
\* call's preferences and selected set alone: no value an earlier call left
\* survives, _fallback_type is null or "cuisine_family_fallback", and
\* _dish_fallback is a boolean.
C30_FlagsRewritten ==
    \A r \in Reqs :
        pc[r] \in {"ranked", "done"} =>
            LET a == attrs[r]
                tokens == IF a.dish.t = "list" THEN a.dish.l
                          ELSE IF a.dish.t = "str" THEN <<a.dish.s>> ELSE <<>>
                cuisine_found ==
                    \E i \in 1..Len(ranked[r]) :
                        \/ Contains(Lower(heap[ranked[r][i]].category), Lower(UserCuisine(a)))
                        \/ Contains(Lower(heap[ranked[r][i]].cuisine), Lower(UserCuisine(a)))
                dish_found ==
                    \E i \in 1..Len(ranked[r]) : \E j \in 1..Len(tokens) :
                        Contains(Lower(heap[ranked[r][i]].name \o " "
                                       \o heap[ranked[r][i]].category \o " "
                                       \o heap[ranked[r][i]].tags),
                                 Lower(tokens[j]))
            IN  /\ a.fallback_type \in {"None", "cuisine_family_fallback"}
                /\ a.dish_fallback \in {"True", "False"}
                /\ a.fallback_type = "cuisine_family_fallback"
                       <=> (UserCuisine(a) # "" /\ ranked[r] # <<>> /\ ~cuisine_found)
                /\ a.dish_fallback = "True"
                       <=> (Truthy(a.dish) /\ ranked[r] # <<>> /\ ~dish_found)

\* A preferences object that carried "cuisine_family_fallback" and true from
\* an earlier call was ranked again over a list that the veg filter emptied:
\* both flags were reset.
C30_StaleFlagsReset ==
    \E r \in Reqs :
        /\ pc[r] = "ranked"
        /\ attrs[r].raw_query = "the same again"
        /\ attrs[r].cuisine # ""
        /\ Truthy(attrs[r].dish)
        /\ places[r] # <<>>
        /\ ranked[r] = <<>>
        /\ attrs[r].fallback_type = "None"
        /\ attrs[r].dish_fallback = "False"

=============================================================================
